---- MODULE Spec2Model ----
(***************************************************************************)
(* A model of rust-ts: the Option<T> and Result<T, E> containers of        *)
(* src/unnamed/part_010 (option.ts) and src/src/result.ts, their factory   *)
(* functions, the type guards and the free function match.                 *)
(*                                                                         *)
(* The JavaScript heap is a sequence of objects; a container is referred   *)
(* to by its index.  Every method is an operator from the heap, the        *)
(* receiver and the arguments to an outcome: the heap after the call, the  *)
(* value returned or the failure thrown, and the caller-supplied callbacks *)
(* it invoked.  One action per method name performs the dynamic dispatch   *)
(* on the receiver's class.                                                *)
(***************************************************************************)
EXTENDS Integers, Sequences, FiniteSets, TLC

VARIABLES
    heap,     \* the objects constructed so far, by reference
    ret,      \* the value returned by the last call
    thrown,   \* <<e>> when the last call threw e, else <<>>
    calls,    \* the callbacks the last call invoked, with their arguments
    last,     \* the last call: method name, receiver, arguments
    root,     \* the object a fluent chain of map/and calls started from
    proms     \* the promises created so far, by reference

vars == <<heap, ret, thrown, calls, last, root, proms>>

(***************************************************************************)
(* Bounds of the model.                                                    *)
(***************************************************************************)
MaxObjs == 3
MaxProms == 3
MaxAsyncObjs == 2
MaxChainProms == 4
MaxSyncProms == 2
MaxFetches == 2
MaxBoxValue == 3

(***************************************************************************)
(* JavaScript values, tagged by their runtime type.                        *)
(***************************************************************************)
Num(n) == [t |-> "num", v |-> n]
Str(s) == [t |-> "str", v |-> s]
Arr(a) == [t |-> "arr", v |-> a]
Bool(b) == [t |-> "bool", v |-> b]
Fn(name) == [t |-> "fn", v |-> name]
AsyncFn(name) == [t |-> "asyncfn", v |-> name]
PromiseRef(i) == [t |-> "promise", v |-> i]
Ref(i) == [t |-> "ref", v |-> i]
Error(msg) == [t |-> "error", v |-> msg]
Undefined == [t |-> "undef", v |-> 0]
Null == [t |-> "null", v |-> 0]

\* no call: the program is between two statements
Idle == [op |-> "idle", recv |-> 0, args |-> <<>>]

\* s.includes(part) on strings
Includes(s, part) ==
    \E i \in 1..(Len(s) + 1) :
        /\ i + Len(part) - 1 <= Len(s)
        /\ SubSeq(s, i, i + Len(part) - 1) = part

\* x instanceof Function
InstanceofFunction(x) == x.t \in {"fn", "asyncfn"}

(***************************************************************************)
(* String literals: TLA+ strings cannot hold a backquote, so the backquotes *)
(* of the source's messages are written as apostrophes.                    *)
(*                                                                         *)
(* Outcomes of evaluating an expression or a call.  stuck marks a call the *)
(* TypeScript compiler rejects (a callback applied outside its parameter   *)
(* type); such calls are not part of any program.                          *)
(***************************************************************************)
Return(h, v) ==
    [heap |-> h, ret |-> v, thrown |-> <<>>, calls |-> <<>>, stuck |-> FALSE]

Throw(h, e) ==
    [heap |-> h, ret |-> Undefined, thrown |-> <<e>>, calls |-> <<>>, stuck |-> FALSE]

IllTyped(h) ==
    [heap |-> h, ret |-> Undefined, thrown |-> <<>>, calls |-> <<>>, stuck |-> TRUE]

\* evaluate r, then (unless it threw) continue with K on its heap and value
Then(r, K(_, _)) ==
    IF r.stuck \/ r.thrown # <<>>
    THEN r
    ELSE LET k == K(r.heap, r.ret) IN [k EXCEPT !.calls = r.calls \o k.calls]

(***************************************************************************)
(* Constructors.                                                           *)
(***************************************************************************)
New_Ok(h, val) == Return(Append(h, [cls |-> "Ok", value |-> val]), Ref(Len(h) + 1))

New_Err(h, err) == Return(Append(h, [cls |-> "Err", err |-> err]), Ref(Len(h) + 1))

New_Some(h, val) == Return(Append(h, [cls |-> "Some", value |-> val]), Ref(Len(h) + 1))

New_None(h) == Return(Append(h, [cls |-> "None"]), Ref(Len(h) + 1))

\* new Box(value): this.value = value
New_Box(h, value) == Return(Append(h, [cls |-> "Box", value |-> value]), Ref(Len(h) + 1))

\* README: const divide = (x, y) => y === 0 ? Err("Can't divide by zero") : Ok(x / y)
divide(h, x, y) ==
    IF y = 0 THEN New_Err(h, Str("Can't divide by zero"))
    ELSE IF x % y # 0 THEN IllTyped(h)   \* quotients outside the integers are not modelled
    ELSE New_Ok(h, Num(x \div y))

(***************************************************************************)
(* The caller-supplied callbacks: the arrow functions the tests and the    *)
(* README pass to the combinators.  A callback applied to a value outside  *)
(* its parameter type is ill-typed.                                        *)
(***************************************************************************)
RECURSIVE CallbackBody(_, _, _)

\* f(...args): the call is recorded, then the body runs
Invoke(h, f, args) ==
    IF ~InstanceofFunction(f) THEN Throw(h, Error("TypeError: not a function"))
    ELSE IF f.t # "fn" THEN IllTyped(h)   \* a synchronous combinator takes no async callback
    ELSE LET r == CallbackBody(f.v, h, args)
         IN  [r EXCEPT !.calls = <<[fn |-> f.v, args |-> args]>> \o r.calls]

(***************************************************************************)
(* class Ok<T, E>                                                          *)
(***************************************************************************)
Ok_is_ok(h, self) == Return(h, Bool(TRUE))

Ok_is_err(h, self) == Return(h, Bool(FALSE))

\* a map that would write its result into the receiver and return the receiver
Ok_map_Mut(h, self, op) ==
    Then(Invoke(h, op, <<h[self].value>>),
         LAMBDA h2, v : Return([h2 EXCEPT ![self].value = v], Ref(self)))

Ok_map(h, self, op) ==
    Then(Invoke(h, op, <<h[self].value>>), LAMBDA h2, v : New_Ok(h2, v))

Ok_map_or(h, self, x, op) == Invoke(h, op, <<h[self].value>>)

Ok_map_err(h, self, op) == New_Ok(h, h[self].value)

\* a bug: the operand is never called
Ok_and_Value(h, self, x) == Return(h, x)

Ok_and(h, self, x) ==
    IF InstanceofFunction(x) THEN Invoke(h, x, <<h[self].value>>) ELSE Return(h, x)

\* a bug: a callable alternative is evaluated before the variant is looked at
Ok_or_Eager(h, self, x) ==
    IF InstanceofFunction(x)
    THEN Then(Invoke(h, x, <<>>), LAMBDA h2, v : New_Ok(h2, h[self].value))
    ELSE New_Ok(h, h[self].value)

Ok_or(h, self, x) == New_Ok(h, h[self].value)

Ok_unwrap(h, self) == Return(h, h[self].value)

Ok_unwrap_or(h, self, x) == Return(h, h[self].value)

\* a bug: the message carries the payload
Ok_unwrap_err_Payload(h, self) ==
    Throw(h, Error("Called 'unwrap_err()' on an 'Ok' value: " \o ToString(h[self].value.v)))

Ok_unwrap_err(h, self) == Throw(h, Error("Called 'unwrap_err()' on an 'Ok' value"))

Ok_expect(h, self, msg) == Return(h, h[self].value)

Ok_match(h, self, pattern) == Invoke(h, pattern.ok, <<h[self].value>>)

Ok_ok(h, self, f, or) == Invoke(h, f, <<h[self].value>>)

(***************************************************************************)
(* class Err<T, E>                                                         *)
(***************************************************************************)
\* a bug: the flag of the other variant
Err_is_ok_True(h, self) == Return(h, Bool(TRUE))

Err_is_ok(h, self) == Return(h, Bool(FALSE))

Err_is_err(h, self) == Return(h, Bool(TRUE))

\* a bug: the error comes back as a success
Err_map_AsOk(h, self, op) == New_Ok(h, h[self].err)

Err_map(h, self, op) == New_Err(h, h[self].err)

Err_map_or(h, self, x, op) ==
    IF InstanceofFunction(x) THEN Invoke(h, x, <<>>) ELSE Return(h, x)

\* a bug: the Result op returns is wrapped as Rust's map_err wraps an error
Err_map_err_Wrap(h, self, op) ==
    Then(Invoke(h, op, <<h[self].err>>), LAMBDA h2, v : New_Err(h2, v))

Err_map_err(h, self, op) == Invoke(h, op, <<h[self].err>>)

Err_and(h, self, x) == New_Err(h, h[self].err)

\* a bug: the callback does not receive the error
Err_or_NoArg(h, self, x) ==
    IF InstanceofFunction(x) THEN Invoke(h, x, <<>>) ELSE Return(h, x)

Err_or(h, self, x) ==
    IF InstanceofFunction(x) THEN Invoke(h, x, <<h[self].err>>) ELSE Return(h, x)

Err_unwrap(h, self) == Throw(h, Error("called 'unwrap()' on an 'Err' value"))

\* a bug: the fallback is ignored and the call fails as unwrap does
Err_unwrap_or_Throws(h, self, x) ==
    Throw(h, Error("called 'unwrap_or()' on an 'Err' value"))

\* a bug: a callable fallback is called without the error
Err_unwrap_or_NoArg(h, self, x) ==
    IF InstanceofFunction(x) THEN Invoke(h, x, <<>>) ELSE Return(h, x)

Err_unwrap_or(h, self, x) ==
    IF InstanceofFunction(x) THEN Invoke(h, x, <<h[self].err>>) ELSE Return(h, x)

Err_unwrap_err(h, self) == Return(h, h[self].err)

Err_expect(h, self, msg) == Throw(h, Error(msg))

\* a bug: the error is handed to the branch of the other variant
Err_match_OkBranch(h, self, pattern) == Invoke(h, pattern.ok, <<h[self].err>>)

Err_match(h, self, pattern) == Invoke(h, pattern.err, <<h[self].err>>)

\* or ?? this
Err_ok(h, self, f, or) == Return(h, IF or.t \in {"undef", "null"} THEN Ref(self) ELSE or)

(***************************************************************************)
(* class Some<T>                                                           *)
(***************************************************************************)
Some_is_some(h, self) == Return(h, Bool(TRUE))

Some_is_none(h, self) == Return(h, Bool(FALSE))

\* a bug: the mapped value is wrapped once more
Some_map_Boxed(h, self, op) ==
    Then(Invoke(h, op, <<h[self].value>>), LAMBDA h2, v : New_Some(h2, Arr(<<v>>)))

\* a bug: a failure of the callback is caught and turned into None
Some_map_Catch(h, self, op) ==
    LET r == Invoke(h, op, <<h[self].value>>)
    IN  IF r.thrown # <<>>
        THEN [New_None(h) EXCEPT !.calls = r.calls]
        ELSE Then(r, LAMBDA h2, v : New_Some(h2, v))

Some_map(h, self, op) ==
    Then(Invoke(h, op, <<h[self].value>>), LAMBDA h2, v : New_Some(h2, v))

\* a bug: a callable default is evaluated although the value is present
Some_map_or_Eager(h, self, x, op) ==
    IF InstanceofFunction(x)
    THEN Then(Invoke(h, x, <<>>), LAMBDA h2, d : Invoke(h2, op, <<h[self].value>>))
    ELSE Invoke(h, op, <<h[self].value>>)

Some_map_or(h, self, x, op) == Invoke(h, op, <<h[self].value>>)

\* a bug: a callable error is evaluated although the value is present
Some_ok_or_Eager(h, self, x) ==
    IF InstanceofFunction(x)
    THEN Then(Invoke(h, x, <<>>), LAMBDA h2, e : New_Ok(h2, h[self].value))
    ELSE New_Ok(h, h[self].value)

Some_ok_or(h, self, x) == New_Ok(h, h[self].value)

\* a bug: a callable operand is returned instead of called
Some_and_Value(h, self, x) == Return(h, x)

Some_and(h, self, x) ==
    IF InstanceofFunction(x) THEN Invoke(h, x, <<h[self].value>>) ELSE Return(h, x)

Some_or(h, self, x) == New_Some(h, h[self].value)

Some_unwrap(h, self) == Return(h, h[self].value)

\* a bug: the fallback wins over the value
Some_unwrap_or_Fallback(h, self, x) ==
    IF InstanceofFunction(x) THEN Invoke(h, x, <<>>) ELSE Return(h, x)

Some_unwrap_or(h, self, x) == Return(h, h[self].value)

Some_expect(h, self, msg) == Return(h, h[self].value)

Some_match(h, self, pattern) == Invoke(h, pattern.some, <<h[self].value>>)

\* a bug: the result of f is wrapped, as map does
Some_some_Wrapped(h, self, f) ==
    Then(Invoke(h, f, <<h[self].value>>), LAMBDA h2, v : New_Some(h2, v))

Some_some(h, self, f) == Invoke(h, f, <<h[self].value>>)

(***************************************************************************)
(* class None<T>                                                           *)
(***************************************************************************)
None_is_some(h, self) == Return(h, Bool(FALSE))

None_is_none(h, self) == Return(h, Bool(TRUE))

None_map(h, self, op) == New_None(h)

None_map_or(h, self, x, op) ==
    IF InstanceofFunction(x) THEN Invoke(h, x, <<>>) ELSE Return(h, x)

None_ok_or(h, self, x) ==
    Then(IF InstanceofFunction(x) THEN Invoke(h, x, <<>>) ELSE Return(h, x),
         LAMBDA h2, v : New_Err(h2, v))

None_and(h, self, x) == New_None(h)

None_or(h, self, res) ==
    IF InstanceofFunction(res) THEN Invoke(h, res, <<>>) ELSE Return(h, res)

None_unwrap(h, self) == Throw(h, Error("called 'unwrap()' on a 'None' value"))

\* a bug: a callable fallback is returned, not called
None_unwrap_or_Value(h, self, x) == Return(h, x)

None_unwrap_or(h, self, x) ==
    IF InstanceofFunction(x) THEN Invoke(h, x, <<>>) ELSE Return(h, x)

\* a bug: the failure carries the text of unwrap, not msg
None_expect_Default(h, self, msg) == Throw(h, Error("called 'unwrap()' on a 'None' value"))

None_expect(h, self, msg) == Throw(h, Error(msg))

None_match(h, self, pattern) == Invoke(h, pattern.none, <<>>)

None_some(h, self, f) == Return(h, Ref(self))

(***************************************************************************)
(* The bodies of the caller-supplied callbacks.  Some of them call methods *)
(* of the library themselves, as v => f(v).and(g) does.                    *)
(***************************************************************************)
\* o.and(x) for an Option o
OptionAnd(h, o, x) ==
    IF h[o].cls = "Some" THEN Some_and(h, o, x) ELSE None_and(h, o, x)

CallbackBody(name, h, args) ==
    LET a == (IF 1 <= Len(args) THEN args[1] ELSE Undefined) IN
    CASE name = "toString" ->      \* v => v.toString()
            IF a.t = "num" THEN Return(h, Str(ToString(a.v))) ELSE IllTyped(h)
      [] name = "pair" ->          \* z => [z, z + 1]
            IF a.t = "num" THEN Return(h, Arr(<<a.v, a.v + 1>>)) ELSE IllTyped(h)
      [] name = "sum" ->           \* ([v, x]) => v + x
            IF a.t = "arr" THEN Return(h, Num(a.v[1] + a.v[2])) ELSE IllTyped(h)
      [] name = "half" ->          \* z => divide(z, 2)
            IF a.t = "num" THEN divide(h, a.v, 2) ELSE IllTyped(h)
      [] name = "okString" ->      \* v => Ok(v.toString())
            IF a.t = "num" THEN New_Ok(h, Str(ToString(a.v))) ELSE IllTyped(h)
      [] name = "recover" ->       \* () => Ok(42)
            New_Ok(h, Num(42))
      [] name = "errCode" ->       \* err => Err("error code: " + err), a template literal
            IF a.t = "str" THEN New_Err(h, Str("error code: " \o a.v)) ELSE IllTyped(h)
      [] name = "k42" ->           \* () => 42
            Return(h, Num(42))
      [] name = "String" ->        \* v => String(v)
            IF a.t = "num" THEN Return(h, Str(ToString(a.v)))
            ELSE IF a.t = "str" THEN Return(h, a)
            ELSE IllTyped(h)
      [] name = "someString" ->    \* v => Some(v.toString())
            IF a.t = "num" THEN New_Some(h, Str(ToString(a.v))) ELSE IllTyped(h)
      [] name = "some2" ->         \* () => Some(2)
            New_Some(h, Num(2))
      [] name = "unexpected" ->    \* _ => "Enexpected error"
            Return(h, Str("Enexpected error"))
      [] name = "id" ->            \* x => x
            Return(h, a)
      [] name = "sum . pair" ->    \* x => sum(pair(x))
            Then(CallbackBody("pair", h, args), LAMBDA h2, v : CallbackBody("sum", h2, <<v>>))
      [] name = "String . toString" ->   \* x => String(toString(x))
            Then(CallbackBody("toString", h, args),
                 LAMBDA h2, v : CallbackBody("String", h2, <<v>>))
      [] name = "some" ->          \* v => Some(v)
            New_Some(h, a)
      [] name = "toNone" ->        \* () => None()
            New_None(h)
      [] name = "some . and(someString)" ->      \* v => Some(v).and(someString)
            Then(CallbackBody("some", h, args),
                 LAMBDA h2, o : OptionAnd(h2, o.v, Fn("someString")))
      [] name = "someString . and(some2)" ->     \* v => Some(v.toString()).and(some2)
            Then(CallbackBody("someString", h, args),
                 LAMBDA h2, o : OptionAnd(h2, o.v, Fn("some2")))
      [] name = "toNone . and(someString)" ->    \* v => None().and(someString)
            Then(CallbackBody("toNone", h, args),
                 LAMBDA h2, o : OptionAnd(h2, o.v, Fn("someString")))
      [] name = "fail" ->          \* () => { throw Error("callback failed") }
            Throw(h, Error("callback failed"))
      [] name = "inc" ->           \* v => v + 1, on the numbers below MaxBoxValue
            IF a.t = "num" /\ a.v < MaxBoxValue THEN Return(h, Num(a.v + 1)) ELSE IllTyped(h)
      [] name = "boxInc" ->        \* v => new Box(v + 1)
            IF a.t = "num" /\ a.v < MaxBoxValue THEN New_Box(h, Num(a.v + 1)) ELSE IllTyped(h)
      [] name = "isOne" ->         \* v => v === 1
            Return(h, Bool(a = Num(1)))
      [] OTHER -> IllTyped(h)

(***************************************************************************)
(* Promises and async functions.  A promise is pending, fulfilled or       *)
(* rejected; k says what settles a pending one: the async callback whose   *)
(* promise it is (the callback's body completes at some later time), the   *)
(* promise it follows (an async function returned that promise), the       *)
(* await its async function is suspended at (on resuming, the function     *)
(* wraps the awaited value in a new object of class new), or nothing.      *)
(* by is the call of the async method that returned the promise, Idle for  *)
(* a promise the caller or an async callback made; a promise keeps its k   *)
(* and its by when it settles.                                             *)
(***************************************************************************)
Settled == [kind |-> "settled"]
Pending(k) == [st |-> "pending", val |-> Undefined, k |-> k, by |-> Idle]
Fulfilled(v) == [st |-> "fulfilled", val |-> v, k |-> Settled, by |-> Idle]
Rejected(e) == [st |-> "rejected", val |-> e, k |-> Settled, by |-> Idle]

\* new Promise(() => 42): the executor never resolves it
NeverSettles == Pending([kind |-> "never"])

\* the value of an expression inside an async method: no failure, no new object
Value(ps, v) == [proms |-> ps, ret |-> v, calls |-> <<>>, stuck |-> FALSE]

\* f(...args) for an async callback: the call is recorded and its promise returned
InvokeAsync(h, ps, f, args) ==
    IF f.t # "asyncfn" \/ CallbackBody(f.v, h, args).stuck
    THEN [proms |-> ps, ret |-> Undefined, calls |-> <<>>, stuck |-> TRUE]
    ELSE [proms |-> Append(ps, Pending([kind |-> "callback", fn |-> f.v, args |-> args])),
          ret |-> PromiseRef(Len(ps) + 1),
          calls |-> <<[fn |-> f.v, args |-> args]>>,
          stuck |-> FALSE]

\* x instanceof Function ? x(...args) : x
CallOrValue(h, ps, x, args) ==
    IF InstanceofFunction(x) THEN InvokeAsync(h, ps, x, args) ELSE Value(ps, x)

\* an async method whose body is `return e`: its promise follows e when e is a
\* promise and is fulfilled with e otherwise
AsyncReturn(h, e) ==
    [heap |-> h,
     proms |-> Append(e.proms, IF e.ret.t = "promise"
                               THEN Pending([kind |-> "follow", on |-> e.ret.v])
                               ELSE Fulfilled(e.ret)),
     ret |-> PromiseRef(Len(e.proms) + 1),
     thrown |-> <<>>,
     calls |-> e.calls,
     stuck |-> e.stuck]

\* an async method whose body is `return new C(...)` with nothing awaited
AsyncReturnNew(ps, r) ==
    [heap |-> r.heap,
     proms |-> Append(ps, Fulfilled(r.ret)),
     ret |-> PromiseRef(Len(ps) + 1),
     thrown |-> <<>>,
     calls |-> <<>>,
     stuck |-> FALSE]

\* an async method whose body is `return new C(await e)`: it is suspended at the
\* await until e settles
AsyncAwaitNew(h, e, cls) ==
    [heap |-> h,
     proms |-> Append(e.proms, IF e.ret.t = "promise"
                               THEN Pending([kind |-> "await", on |-> e.ret.v, new |-> cls])
                               ELSE NeverSettles),
     ret |-> PromiseRef(Len(e.proms) + 1),
     thrown |-> <<>>,
     calls |-> e.calls,
     stuck |-> e.stuck \/ e.ret.t # "promise"]

(***************************************************************************)
(* The async methods of Ok, Err, Some and None.                            *)
(***************************************************************************)
\* a bug: the await is forgotten, and the Ok holds the callback's promise
Ok_map_async_NoAwait(h, ps, self, op) ==
    LET e == InvokeAsync(h, ps, op, <<h[self].value>>)
        r == New_Ok(h, e.ret)
    IN  [heap |-> r.heap,
         proms |-> Append(e.proms, Fulfilled(r.ret)),
         ret |-> PromiseRef(Len(e.proms) + 1),
         thrown |-> <<>>,
         calls |-> e.calls,
         stuck |-> e.stuck]

Ok_map_async(h, ps, self, op) ==
    AsyncAwaitNew(h, InvokeAsync(h, ps, op, <<h[self].value>>), "Ok")

\* a bug: the default is used, as on Err
Ok_map_or_async_Default(h, ps, self, x, op) == AsyncReturn(h, CallOrValue(h, ps, x, <<>>))

Ok_map_or_async(h, ps, self, x, op) ==
    AsyncReturn(h, InvokeAsync(h, ps, op, <<h[self].value>>))

Ok_map_err_async(h, ps, self, op) == AsyncReturnNew(ps, New_Ok(h, h[self].value))

Ok_and_async(h, ps, self, x) == AsyncReturn(h, CallOrValue(h, ps, x, <<h[self].value>>))

Ok_or_async(h, ps, self, x) == AsyncReturnNew(ps, New_Ok(h, h[self].value))

Ok_unwrap_or_async(h, ps, self, x) == AsyncReturn(h, Value(ps, h[self].value))

Ok_match_async(h, ps, self, pattern) ==
    AsyncReturn(h, InvokeAsync(h, ps, pattern.ok, <<h[self].value>>))

Ok_ok_async(h, ps, self, f) == AsyncReturn(h, InvokeAsync(h, ps, f, <<h[self].value>>))

Err_map_async(h, ps, self, op) == AsyncReturnNew(ps, New_Err(h, h[self].err))

\* a bug: a callable default is returned as it is, not called
Err_map_or_async_Uncalled(h, ps, self, x, op) == AsyncReturn(h, Value(ps, x))

Err_map_or_async(h, ps, self, x, op) == AsyncReturn(h, CallOrValue(h, ps, x, <<>>))

Err_map_err_async(h, ps, self, op) ==
    AsyncReturn(h, InvokeAsync(h, ps, op, <<h[self].err>>))

Err_and_async(h, ps, self, x) == AsyncReturnNew(ps, New_Err(h, h[self].err))

Err_or_async(h, ps, self, x) == AsyncReturn(h, CallOrValue(h, ps, x, <<h[self].err>>))

Err_unwrap_or_async(h, ps, self, x) ==
    AsyncReturn(h, CallOrValue(h, ps, x, <<h[self].err>>))

Err_match_async(h, ps, self, pattern) ==
    AsyncReturn(h, InvokeAsync(h, ps, pattern.err, <<h[self].err>>))

Err_ok_async(h, ps, self, f) == AsyncReturn(h, Value(ps, Ref(self)))

Some_map_async(h, ps, self, op) ==
    AsyncAwaitNew(h, InvokeAsync(h, ps, op, <<h[self].value>>), "Some")

Some_map_or_async(h, ps, self, x, op) ==
    AsyncReturn(h, InvokeAsync(h, ps, op, <<h[self].value>>))

Some_ok_or_async(h, ps, self, x) == AsyncReturnNew(ps, New_Ok(h, h[self].value))

Some_and_async(h, ps, self, x) == AsyncReturn(h, CallOrValue(h, ps, x, <<h[self].value>>))

Some_or_async(h, ps, self, x) == AsyncReturnNew(ps, New_Some(h, h[self].value))

Some_unwrap_or_async(h, ps, self, x) == AsyncReturn(h, Value(ps, h[self].value))

Some_match_async(h, ps, self, pattern) ==
    AsyncReturn(h, InvokeAsync(h, ps, pattern.some, <<h[self].value>>))

Some_some_async(h, ps, self, f) == AsyncReturn(h, InvokeAsync(h, ps, f, <<h[self].value>>))

None_map_async(h, ps, self, op) == AsyncReturnNew(ps, New_None(h))

None_map_or_async(h, ps, self, x, op) == AsyncReturn(h, CallOrValue(h, ps, x, <<>>))

\* new Err(x instanceof Function ? await x() : await Promise.resolve(x))
None_ok_or_async(h, ps, self, x) == AsyncAwaitNew(h, CallOrValue(h, ps, x, <<>>), "Err")

None_and_async(h, ps, self, x) == AsyncReturnNew(ps, New_None(h))

None_or_async(h, ps, self, x) == AsyncReturn(h, CallOrValue(h, ps, x, <<>>))

None_unwrap_or_async(h, ps, self, x) == AsyncReturn(h, CallOrValue(h, ps, x, <<>>))

None_match_async(h, ps, self, pattern) ==
    AsyncReturn(h, InvokeAsync(h, ps, pattern.none, <<>>))

None_some_async(h, ps, self, f) == AsyncReturn(h, Value(ps, Ref(self)))

(***************************************************************************)
(* Method lookup: x.m(...) runs the m of x's class; a class without m      *)
(* makes the call a TypeError.                                             *)
(***************************************************************************)
NoMethod(h, m) == Throw(h, Error("TypeError: " \o m \o " is not a function"))

Send_is_ok(h, self) ==
    CASE h[self].cls = "Ok" -> Ok_is_ok(h, self)
      [] h[self].cls = "Err" -> Err_is_ok(h, self)
      [] OTHER -> NoMethod(h, "is_ok")

Send_is_err(h, self) ==
    CASE h[self].cls = "Ok" -> Ok_is_err(h, self)
      [] h[self].cls = "Err" -> Err_is_err(h, self)
      [] OTHER -> NoMethod(h, "is_err")

Send_is_some(h, self) ==
    CASE h[self].cls = "Some" -> Some_is_some(h, self)
      [] h[self].cls = "None" -> None_is_some(h, self)
      [] OTHER -> NoMethod(h, "is_some")

Send_is_none(h, self) ==
    CASE h[self].cls = "Some" -> Some_is_none(h, self)
      [] h[self].cls = "None" -> None_is_none(h, self)
      [] OTHER -> NoMethod(h, "is_none")

Send_unwrap(h, self) ==
    CASE h[self].cls = "Ok" -> Ok_unwrap(h, self)
      [] h[self].cls = "Err" -> Err_unwrap(h, self)
      [] h[self].cls = "Some" -> Some_unwrap(h, self)
      [] h[self].cls = "None" -> None_unwrap(h, self)

Send_unwrap_err(h, self) ==
    CASE h[self].cls = "Ok" -> Ok_unwrap_err(h, self)
      [] h[self].cls = "Err" -> Err_unwrap_err(h, self)
      [] OTHER -> NoMethod(h, "unwrap_err")

\* the object an async method builds from the value it awaited
AfterAwait(h, cls, v) ==
    CASE cls = "Ok" -> New_Ok(h, v)
      [] cls = "Err" -> New_Err(h, v)
      [] cls = "Some" -> New_Some(h, v)

(***************************************************************************)
(* The type guards and the free function match.                            *)
(***************************************************************************)
\* the property names an instance of the class exposes
Members(cls) ==
    IF cls \in {"Ok", "Err"}
    THEN {"is_ok", "is_err", "map", "map_or", "map_err", "and", "or", "unwrap",
          "unwrap_or", "unwrap_err", "expect", "match", "ok"}
    ELSE {"is_some", "is_none", "map", "map_or", "ok_or", "and", "or", "unwrap",
          "unwrap_or", "expect", "match", "some"}

\* (input as Result<T, E>).is_ok !== undefined
is_result(h, input) == "is_ok" \in Members(h[input.v].cls)

\* a bug: the guard probes a member both types have
is_option_ProbesMap(h, input) == "map" \in Members(h[input.v].cls)

\* (input as Option<T>).is_some !== undefined
is_option(h, input) == "is_some" \in Members(h[input.v].cls)

\* a bug: an Err is handed to the ok branch
match_OkBranchOnly(h, input, pattern) ==
    IF is_result(h, input)
    THEN IF Send_is_ok(h, input.v).ret = Bool(TRUE)
         THEN Then(Send_unwrap(h, input.v), LAMBDA h2, v : Invoke(h2, pattern.ok, <<v>>))
         ELSE Then(Send_unwrap_err(h, input.v), LAMBDA h2, e : Invoke(h2, pattern.ok, <<e>>))
    ELSE IF Send_is_some(h, input.v).ret = Bool(TRUE)
         THEN Then(Send_unwrap(h, input.v), LAMBDA h2, v : Invoke(h2, pattern.some, <<v>>))
         ELSE Invoke(h, pattern.none, <<>>)

match(h, input, pattern) ==
    IF is_result(h, input)
    THEN IF Send_is_ok(h, input.v).ret = Bool(TRUE)
         THEN Then(Send_unwrap(h, input.v), LAMBDA h2, v : Invoke(h2, pattern.ok, <<v>>))
         ELSE Then(Send_unwrap_err(h, input.v), LAMBDA h2, e : Invoke(h2, pattern.err, <<e>>))
    ELSE IF Send_is_some(h, input.v).ret = Bool(TRUE)
         THEN Then(Send_unwrap(h, input.v), LAMBDA h2, v : Invoke(h2, pattern.some, <<v>>))
         ELSE Invoke(h, pattern.none, <<>>)

(***************************************************************************)
(* The inputs of the calls: the payloads, callbacks and patterns a program *)
(* passes.                                                                 *)
(***************************************************************************)
Results(h) == {i \in 1..Len(h) : h[i].cls \in {"Ok", "Err"}}
Options(h) == {i \in 1..Len(h) : h[i].cls \in {"Some", "None"}}
Family(h, self) == IF self \in Results(h) THEN Results(h) ELSE Options(h)

MapOps == {Fn("toString"), Fn("pair"), Fn("fail")}
Defaults == {Num(0), Fn("k42"), Fn("fail")}
Patterns(h, self) ==
    IF self \in Results(h)
    THEN {[ok |-> Fn("String"), err |-> Fn("unexpected")],
          [ok |-> Fn("sum"), err |-> Fn("String")]}
    ELSE {[some |-> Fn("String"), none |-> Fn("unexpected")]}

(***************************************************************************)
(* The client program is a sequence of statements.  A statement calls a    *)
(* factory or a method of an object constructed before, and may go on, as  *)
(* in x.and(f).map(g).match(p), with map, and or a closing match called on *)
(* the value just returned.                                                *)
(* ret, thrown, calls and last describe the call just made until the       *)
(* statement ends.  A call that is ill-typed, or that would need more than *)
(* the bound on objects allows, is not taken: MaxObjs objects while no     *)
(* promise has been made, MaxAsyncObjs once one has.  Sync calls are made  *)
(* while at most MaxSyncProms promises exist.                              *)
(***************************************************************************)
HeapBound(ps) == IF ps = <<>> THEN MaxObjs ELSE MaxAsyncObjs

Chained == {"map", "and"}

Fluent(op, self) ==
    /\ op \in Chained \cup {"match"}
    /\ last.op \in Chained
    /\ thrown = <<>>
    /\ ret = Ref(self)

Do(op, self, args, out) ==
    /\ last = Idle \/ Fluent(op, self)
    /\ ~out.stuck
    /\ Len(out.heap) <= HeapBound(proms)
    /\ Len(proms) <= MaxSyncProms
    /\ heap' = out.heap
    /\ ret' = out.ret
    /\ thrown' = out.thrown
    /\ calls' = out.calls
    /\ last' = [op |-> op, recv |-> self, args |-> args]
    /\ root' = IF Fluent(op, self) THEN root
               ELSE IF op \in Chained THEN self
               ELSE 0
    /\ UNCHANGED proms

EndStatement ==
    /\ last # Idle
    /\ ret' = Undefined
    /\ thrown' = <<>>
    /\ calls' = <<>>
    /\ last' = Idle
    /\ root' = 0
    /\ UNCHANGED <<heap, proms>>

Init ==
    /\ heap = <<>>
    /\ ret = Undefined
    /\ thrown = <<>>
    /\ calls = <<>>
    /\ last = Idle
    /\ root = 0
    /\ proms = <<>>

\* the factory functions of index.ts
Factory_Some ==
    /\ Len(heap) < HeapBound(proms)
    /\ \E value \in {Num(42)} : Do("Some", 0, <<value>>, New_Some(heap, value))

Factory_None ==
    /\ Len(heap) < HeapBound(proms)
    /\ Do("None", 0, <<>>, New_None(heap))

Factory_Ok ==
    /\ Len(heap) < HeapBound(proms)
    /\ \E value \in {Num(42)} : Do("Ok", 0, <<value>>, New_Ok(heap, value))

Factory_Err ==
    /\ Len(heap) < HeapBound(proms)
    /\ \E error \in {Str("boom")} : Do("Err", 0, <<error>>, New_Err(heap, error))

\* the README's producer, called as divide(10, y)
Call_divide ==
    /\ Len(heap) < HeapBound(proms)
    /\ \E y \in {0, 5} : Do("divide", 0, <<Num(10), Num(y)>>, divide(heap, 10, y))

Call_is_ok == \E self \in Results(heap) : Do("is_ok", self, <<>>, Send_is_ok(heap, self))

Call_is_err == \E self \in Results(heap) : Do("is_err", self, <<>>, Send_is_err(heap, self))

Call_is_some == \E self \in Options(heap) : Do("is_some", self, <<>>, Send_is_some(heap, self))

Call_is_none == \E self \in Options(heap) : Do("is_none", self, <<>>, Send_is_none(heap, self))

Call_map ==
    \E self \in 1..Len(heap),
       op \in MapOps \cup {Fn("id"), Fn("sum"), Fn("String"),
                           Fn("sum . pair"), Fn("String . toString")} :
        Do("map", self, <<op>>,
           CASE heap[self].cls = "Ok" -> Ok_map(heap, self, op)
             [] heap[self].cls = "Err" -> Err_map(heap, self, op)
             [] heap[self].cls = "Some" -> Some_map(heap, self, op)
             [] heap[self].cls = "None" -> None_map(heap, self, op))

Call_map_or ==
    \E self \in 1..Len(heap), x \in Defaults, op \in MapOps :
        Do("map_or", self, <<x, op>>,
           CASE heap[self].cls = "Ok" -> Ok_map_or(heap, self, x, op)
             [] heap[self].cls = "Err" -> Err_map_or(heap, self, x, op)
             [] heap[self].cls = "Some" -> Some_map_or(heap, self, x, op)
             [] heap[self].cls = "None" -> None_map_or(heap, self, x, op))

Call_map_err ==
    \E self \in Results(heap), op \in {Fn("errCode"), Fn("recover")} :
        Do("map_err", self, <<op>>,
           CASE heap[self].cls = "Ok" -> Ok_map_err(heap, self, op)
             [] heap[self].cls = "Err" -> Err_map_err(heap, self, op)
             [] OTHER -> NoMethod(heap, "map_err"))

Call_ok_or ==
    \E self \in Options(heap), x \in {Str("err"), Fn("k42")} :
        Do("ok_or", self, <<x>>,
           CASE heap[self].cls = "Some" -> Some_ok_or(heap, self, x)
             [] heap[self].cls = "None" -> None_ok_or(heap, self, x)
             [] OTHER -> NoMethod(heap, "ok_or"))

Call_and ==
    \E self \in 1..Len(heap) :
        \E x \in {Ref(i) : i \in Family(heap, self)} \cup
                 (IF self \in Results(heap)
                  THEN {Fn("half"), Fn("okString"), Fn("fail")}
                  ELSE {Fn("someString"), Fn("some"), Fn("some2"), Fn("toNone"), Fn("fail"),
                        Fn("some . and(someString)"), Fn("someString . and(some2)"),
                        Fn("toNone . and(someString)")}) :
            Do("and", self, <<x>>,
               CASE heap[self].cls = "Ok" -> Ok_and(heap, self, x)
                 [] heap[self].cls = "Err" -> Err_and(heap, self, x)
                 [] heap[self].cls = "Some" -> Some_and(heap, self, x)
                 [] heap[self].cls = "None" -> None_and(heap, self, x))

Call_or ==
    \E self \in 1..Len(heap) :
        \E x \in {Ref(i) : i \in Family(heap, self)} \cup
                 (IF self \in Results(heap) THEN {Fn("recover"), Fn("errCode"), Fn("fail")}
                                            ELSE {Fn("some2"), Fn("fail")}) :
            Do("or", self, <<x>>,
               CASE heap[self].cls = "Ok" -> Ok_or(heap, self, x)
                 [] heap[self].cls = "Err" -> Err_or(heap, self, x)
                 [] heap[self].cls = "Some" -> Some_or(heap, self, x)
                 [] heap[self].cls = "None" -> None_or(heap, self, x))

Call_unwrap == \E self \in 1..Len(heap) : Do("unwrap", self, <<>>, Send_unwrap(heap, self))

Call_unwrap_or ==
    \E self \in 1..Len(heap), x \in Defaults :
        Do("unwrap_or", self, <<x>>,
           CASE heap[self].cls = "Ok" -> Ok_unwrap_or(heap, self, x)
             [] heap[self].cls = "Err" -> Err_unwrap_or(heap, self, x)
             [] heap[self].cls = "Some" -> Some_unwrap_or(heap, self, x)
             [] heap[self].cls = "None" -> None_unwrap_or(heap, self, x))

Call_unwrap_err ==
    \E self \in Results(heap) : Do("unwrap_err", self, <<>>, Send_unwrap_err(heap, self))

Call_expect ==
    \E self \in 1..Len(heap), msg \in {"Testing expect", "a value"} :
        Do("expect", self, <<Str(msg)>>,
           CASE heap[self].cls = "Ok" -> Ok_expect(heap, self, msg)
             [] heap[self].cls = "Err" -> Err_expect(heap, self, msg)
             [] heap[self].cls = "Some" -> Some_expect(heap, self, msg)
             [] heap[self].cls = "None" -> None_expect(heap, self, msg))

Call_match ==
    \E self \in 1..Len(heap) : \E pattern \in Patterns(heap, self) :
        Do("match", self, <<pattern>>,
           CASE heap[self].cls = "Ok" -> Ok_match(heap, self, pattern)
             [] heap[self].cls = "Err" -> Err_match(heap, self, pattern)
             [] heap[self].cls = "Some" -> Some_match(heap, self, pattern)
             [] heap[self].cls = "None" -> None_match(heap, self, pattern))

\* x.ok(f) and x.ok(f, or): a parameter left out reads as undefined
Call_ok ==
    \E self \in Results(heap), f \in MapOps :
    \E args \in {<<f>>, <<f, Num(0)>>, <<f, Null>>, <<f, Undefined>>} :
        LET or == IF Len(args) = 2 THEN args[2] ELSE Undefined
        IN  Do("ok", self, args,
               CASE heap[self].cls = "Ok" -> Ok_ok(heap, self, f, or)
                 [] heap[self].cls = "Err" -> Err_ok(heap, self, f, or)
                 [] OTHER -> NoMethod(heap, "ok"))

Call_some ==
    \E self \in Options(heap), f \in MapOps :
        Do("some", self, <<f>>,
           CASE heap[self].cls = "Some" -> Some_some(heap, self, f)
             [] heap[self].cls = "None" -> None_some(heap, self, f)
             [] OTHER -> NoMethod(heap, "some"))

\* the free function match(input, pattern)
Call_free_match ==
    \E input \in 1..Len(heap) : \E pattern \in Patterns(heap, input) :
        Do("free match", input, <<pattern>>, match(heap, Ref(input), pattern))

\* the type guards is_result(input) and is_option(input)
Call_is_result ==
    \E input \in 1..Len(heap) :
        Do("is_result", input, <<>>, Return(heap, Bool(is_result(heap, Ref(input)))))

Call_is_option ==
    \E input \in 1..Len(heap) :
        Do("is_option", input, <<>>, Return(heap, Bool(is_option(heap, Ref(input)))))

Next ==
    \/ Factory_Some \/ Factory_None \/ Factory_Ok \/ Factory_Err \/ Call_divide
    \/ Call_is_ok \/ Call_is_err \/ Call_is_some \/ Call_is_none
    \/ Call_map \/ Call_map_or \/ Call_map_err \/ Call_ok_or
    \/ Call_and \/ Call_or
    \/ Call_unwrap \/ Call_unwrap_or \/ Call_unwrap_err \/ Call_expect
    \/ Call_match \/ Call_ok \/ Call_some \/ Call_free_match
    \/ Call_is_result \/ Call_is_option
    \/ EndStatement

Spec == Init /\ [][Next]_vars

(***************************************************************************)
(* The async calls and the steps of the event loop.  A promise a call is   *)
(* given is made by the caller just before the call.  Callbacks complete   *)
(* and suspended async methods resume between the statements of the        *)
(* program, never inside one (run to completion).                          *)
(***************************************************************************)
NewPromise(p) == [t |-> "newpromise", v |-> p]
ArgProms(ps, a) == IF a.t = "newpromise" THEN Append(ps, a.v) ELSE ps
ArgValue(ps, a) == IF a.t = "newpromise" THEN PromiseRef(Len(ps) + 1) ELSE a

AsyncMapOps == {AsyncFn("toString"), AsyncFn("fail")}
AsyncDefaults == {NewPromise(Fulfilled(Num(0))), NewPromise(NeverSettles), AsyncFn("k42")}

\* x is what an earlier async call resolved to: a call on x continues a chain
\* of steps, each applied to the awaited result of the one before
Awaited(x) ==
    \E p \in 1..Len(proms) :
        proms[p].by # Idle /\ proms[p].st = "fulfilled" /\ proms[p].val = Ref(x)

\* an async call is made while it needs no more than MaxProms promises, or
\* MaxChainProms when it continues a chain
DoAsync(op, self, args, out) ==
    /\ last = Idle
    /\ ~out.stuck
    /\ Len(out.heap) <= HeapBound(out.proms)
    /\ Len(out.proms) <= (IF Awaited(self) THEN MaxChainProms ELSE MaxProms)
    /\ heap' = out.heap
    /\ proms' = IF out.ret.t = "promise"
                THEN [out.proms EXCEPT ![out.ret.v].by =
                                          [op |-> op, recv |-> self, args |-> args]]
                ELSE out.proms
    /\ ret' = out.ret
    /\ thrown' = out.thrown
    /\ calls' = out.calls
    /\ last' = [op |-> op, recv |-> self, args |-> args]
    /\ root' = 0

Call_map_async ==
    \E self \in 1..Len(heap), op \in AsyncMapOps :
        DoAsync("map_async", self, <<op>>,
           CASE heap[self].cls = "Ok" -> Ok_map_async(heap, proms, self, op)
             [] heap[self].cls = "Err" -> Err_map_async(heap, proms, self, op)
             [] heap[self].cls = "Some" -> Some_map_async(heap, proms, self, op)
             [] heap[self].cls = "None" -> None_map_async(heap, proms, self, op))

Call_map_or_async ==
    \E self \in 1..Len(heap), a \in AsyncDefaults, op \in AsyncMapOps :
        LET x == ArgValue(proms, a)
            ps == ArgProms(proms, a)
        IN  DoAsync("map_or_async", self, <<x, op>>,
                    CASE heap[self].cls = "Ok" -> Ok_map_or_async(heap, ps, self, x, op)
                      [] heap[self].cls = "Err" -> Err_map_or_async(heap, ps, self, x, op)
                      [] heap[self].cls = "Some" -> Some_map_or_async(heap, ps, self, x, op)
                      [] heap[self].cls = "None" -> None_map_or_async(heap, ps, self, x, op))

Call_map_err_async ==
    \E self \in Results(heap), op \in {AsyncFn("errCode"), AsyncFn("recover")} :
        DoAsync("map_err_async", self, <<op>>,
           CASE heap[self].cls = "Ok" -> Ok_map_err_async(heap, proms, self, op)
             [] heap[self].cls = "Err" -> Err_map_err_async(heap, proms, self, op))

Call_ok_or_async ==
    \E self \in Options(heap), a \in {NewPromise(Fulfilled(Str("err"))), AsyncFn("k42")} :
        LET x == ArgValue(proms, a)
            ps == ArgProms(proms, a)
        IN  DoAsync("ok_or_async", self, <<x>>,
                    CASE heap[self].cls = "Some" -> Some_ok_or_async(heap, ps, self, x)
                      [] heap[self].cls = "None" -> None_ok_or_async(heap, ps, self, x))

Call_and_async ==
    \E self \in 1..Len(heap) :
        \E a \in {NewPromise(Fulfilled(Ref(i))) : i \in Family(heap, self)} \cup
                 (IF self \in Results(heap) THEN {AsyncFn("okString")}
                                            ELSE {AsyncFn("someString")}) :
            LET x == ArgValue(proms, a)
                ps == ArgProms(proms, a)
            IN  DoAsync("and_async", self, <<x>>,
                        CASE heap[self].cls = "Ok" -> Ok_and_async(heap, ps, self, x)
                          [] heap[self].cls = "Err" -> Err_and_async(heap, ps, self, x)
                          [] heap[self].cls = "Some" -> Some_and_async(heap, ps, self, x)
                          [] heap[self].cls = "None" -> None_and_async(heap, ps, self, x))

Call_or_async ==
    \E self \in 1..Len(heap) :
        \E a \in {NewPromise(Fulfilled(Ref(i))) : i \in Family(heap, self)} \cup
                 {NewPromise(NeverSettles)} \cup
                 (IF self \in Results(heap) THEN {AsyncFn("recover")}
                                            ELSE {AsyncFn("some2")}) :
            LET x == ArgValue(proms, a)
                ps == ArgProms(proms, a)
            IN  DoAsync("or_async", self, <<x>>,
                        CASE heap[self].cls = "Ok" -> Ok_or_async(heap, ps, self, x)
                          [] heap[self].cls = "Err" -> Err_or_async(heap, ps, self, x)
                          [] heap[self].cls = "Some" -> Some_or_async(heap, ps, self, x)
                          [] heap[self].cls = "None" -> None_or_async(heap, ps, self, x))

Call_unwrap_or_async ==
    \E self \in 1..Len(heap), a \in AsyncDefaults :
        LET x == ArgValue(proms, a)
            ps == ArgProms(proms, a)
        IN  DoAsync("unwrap_or_async", self, <<x>>,
                    CASE heap[self].cls = "Ok" -> Ok_unwrap_or_async(heap, ps, self, x)
                      [] heap[self].cls = "Err" -> Err_unwrap_or_async(heap, ps, self, x)
                      [] heap[self].cls = "Some" -> Some_unwrap_or_async(heap, ps, self, x)
                      [] heap[self].cls = "None" -> None_unwrap_or_async(heap, ps, self, x))

Call_match_async ==
    \E self \in 1..Len(heap) :
        \E pattern \in IF self \in Results(heap)
                       THEN {[ok |-> AsyncFn("String"), err |-> AsyncFn("unexpected")]}
                       ELSE {[some |-> AsyncFn("String"), none |-> AsyncFn("unexpected")]} :
            DoAsync("match_async", self, <<pattern>>,
                    CASE heap[self].cls = "Ok" -> Ok_match_async(heap, proms, self, pattern)
                      [] heap[self].cls = "Err" -> Err_match_async(heap, proms, self, pattern)
                      [] heap[self].cls = "Some" -> Some_match_async(heap, proms, self, pattern)
                      [] heap[self].cls = "None" -> None_match_async(heap, proms, self, pattern))

Call_ok_async ==
    \E self \in Results(heap), f \in AsyncMapOps :
        DoAsync("ok_async", self, <<f>>,
           CASE heap[self].cls = "Ok" -> Ok_ok_async(heap, proms, self, f)
             [] heap[self].cls = "Err" -> Err_ok_async(heap, proms, self, f))

Call_some_async ==
    \E self \in Options(heap), f \in AsyncMapOps :
        DoAsync("some_async", self, <<f>>,
           CASE heap[self].cls = "Some" -> Some_some_async(heap, proms, self, f)
             [] heap[self].cls = "None" -> None_some_async(heap, proms, self, f))

\* the body of an async callback completes and its promise settles
CallbackSettles ==
    /\ last = Idle
    /\ \E q \in 1..Len(proms) :
        /\ proms[q].st = "pending"
        /\ proms[q].k.kind = "callback"
        /\ LET e == CallbackBody(proms[q].k.fn, heap, proms[q].k.args)
           IN  /\ ~e.stuck
               /\ Len(e.heap) <= HeapBound(proms)
               /\ heap' = e.heap
               /\ proms' = IF e.thrown = <<>>
                           THEN [proms EXCEPT ![q].st = "fulfilled", ![q].val = e.ret]
                           ELSE [proms EXCEPT ![q].st = "rejected", ![q].val = e.thrown[1]]
    /\ UNCHANGED <<ret, thrown, calls, last, root>>

\* a promise that follows a settled promise settles as it did; an async method
\* suspended at an await of a settled promise resumes, and returns or fails
Resume ==
    /\ last = Idle
    /\ \E p \in 1..Len(proms) :
        /\ proms[p].st = "pending"
        /\ proms[p].k.kind \in {"follow", "await"}
        /\ LET q == proms[proms[p].k.on]
           IN  /\ q.st # "pending"
               /\ IF q.st = "rejected"
                  THEN /\ proms' = [proms EXCEPT ![p].st = "rejected", ![p].val = q.val]
                       /\ heap' = heap
                  ELSE IF proms[p].k.kind = "follow"
                  THEN /\ proms' = [proms EXCEPT ![p].st = "fulfilled", ![p].val = q.val]
                       /\ heap' = heap
                  ELSE LET r == AfterAwait(heap, proms[p].k.new, q.val)
                       IN  /\ Len(r.heap) <= HeapBound(proms)
                           /\ heap' = r.heap
                           /\ proms' = [proms EXCEPT ![p].st = "fulfilled",
                                                      ![p].val = r.ret]
    /\ UNCHANGED <<ret, thrown, calls, last, root>>

NextAsync ==
    \/ Next
    \/ Call_map_async \/ Call_map_or_async \/ Call_map_err_async \/ Call_ok_or_async
    \/ Call_and_async \/ Call_or_async \/ Call_unwrap_or_async
    \/ Call_match_async \/ Call_ok_async \/ Call_some_async
    \/ CallbackSettles \/ Resume

SpecAsync == Init /\ [][NextAsync]_vars

(***************************************************************************)
(* A program that makes only async calls.  A statement runs to completion, *)
(* a callback that was started completes, and the event loop resumes what  *)
(* waits on a settled promise.                                             *)
(***************************************************************************)
NextEventLoop ==
    \/ Factory_Some \/ Factory_None \/ Factory_Ok \/ Factory_Err
    \/ Call_map_async \/ Call_map_or_async \/ Call_map_err_async \/ Call_ok_or_async
    \/ Call_and_async \/ Call_or_async \/ Call_unwrap_or_async
    \/ Call_match_async \/ Call_ok_async \/ Call_some_async
    \/ CallbackSettles \/ Resume
    \/ EndStatement

SpecEventLoop ==
    /\ Init /\ [][NextEventLoop]_vars
    /\ WF_vars(EndStatement) /\ WF_vars(CallbackSettles) /\ WF_vars(Resume)

(***************************************************************************)
(* fetchr(url, opts) of src/src/fetch.ts.  The network is the environment: *)
(* it rejects the fetch or delivers a response, and later delivers the     *)
(* body or fails while the body is read.  The promise fetchr returned      *)
(* records in k where fetchr is suspended (at), the response it got, the   *)
(* body readers it has invoked and the error it has caught.                *)
(***************************************************************************)
Responses ==
    {[status |-> 200, statusText |-> "OK", content_type |-> ct, body |-> b] :
        ct \in {Null, Str(""), Str("application/json"), Str("text/plain"),
                Str("multipart/form-data"), Str("application/octet-stream"),
                Str("image/png")},
        b \in {"42", "a=1"}}
    \cup {[status |-> 404, statusText |-> "Not Found",
           content_type |-> Str("application/json"), body |-> "{}"]}

\* the body reader the content type selects, "none" when fetchr reads no body
BodyReader(content_type) ==
    IF Includes(content_type, "json") THEN "json"
    ELSE IF Includes(content_type, "text") THEN "text"
    ELSE IF Includes(content_type, "form") THEN "formData"
    ELSE IF Includes(content_type, "octet-stream") THEN "blob"
    ELSE "none"

\* what response.json(), text(), formData() and blob() resolve to on a body,
\* or the error they reject with
Read(reader, body) ==
    CASE reader = "json" ->
            IF \E n \in 0..99 : ToString(n) = body
            THEN [ok |-> TRUE, val |-> Num(CHOOSE n \in 0..99 : ToString(n) = body)]
            ELSE [ok |-> FALSE, val |-> Error("SyntaxError: Unexpected token")]
      [] reader = "text" -> [ok |-> TRUE, val |-> Str(body)]
      [] reader = "formData" ->
            IF Includes(body, "=")
            THEN [ok |-> TRUE, val |-> [t |-> "form", v |-> body]]
            ELSE [ok |-> FALSE, val |-> Error("TypeError: Failed to parse body as FormData")]
      [] reader = "blob" -> [ok |-> TRUE, val |-> [t |-> "blob", v |-> body]]

\* fetchr(url): the async function runs up to `await fetch(url, opts)`
Call_fetchr ==
    /\ last = Idle
    /\ Len(proms) < MaxFetches
    /\ \E url \in {"/todos/1", "/todos/0"} :
        LET c == [op |-> "fetchr", recv |-> 0, args |-> <<Str(url)>>]
        IN  /\ proms' = Append(proms,
                    [st |-> "pending", val |-> Undefined, by |-> c,
                     k |-> [kind |-> "fetchr", at |-> "fetch", response |-> <<>>,
                            readers |-> <<>>, caught |-> <<>>]])
            /\ ret' = PromiseRef(Len(proms) + 1)
            /\ last' = c
    /\ thrown' = <<>>
    /\ calls' = <<>>
    /\ root' = 0
    /\ UNCHANGED heap

\* the promise of fetch settles and fetchr resumes: it returns an Err, or an Ok
\* of the response, or invokes a body reader and is suspended again
FetchSettles ==
    /\ last = Idle
    /\ \E p \in 1..Len(proms) :
        /\ proms[p].st = "pending"
        /\ proms[p].k.kind = "fetchr"
        /\ proms[p].k.at = "fetch"
        /\ \/ \E error \in {Error("TypeError: Failed to fetch")} :
                LET r == New_Err(heap, error)
                IN  /\ heap' = r.heap
                    /\ proms' = [proms EXCEPT ![p].st = "fulfilled", ![p].val = r.ret,
                                              ![p].k.at = "catch",
                                              ![p].k.caught = <<error>>]
           \/ \E response \in Responses :
                LET content_type == response.content_type
                    missing == content_type = Null \/ content_type.v = ""
                    reader == BodyReader(content_type.v)
                    r == IF response.status \notin 200..299
                         THEN New_Err(heap, Error(ToString(response.status) \o " "
                                                      \o response.statusText))
                         ELSE IF missing
                         THEN New_Err(heap, Error("Content-Type header is missing"))
                         ELSE New_Ok(heap, [t |-> "response", v |-> response])
                IN  IF response.status \in 200..299 /\ ~missing /\ reader # "none"
                    THEN /\ proms' = [proms EXCEPT ![p].k.at = "body",
                                                   ![p].k.response = <<response>>,
                                                   ![p].k.readers = <<reader>>]
                         /\ heap' = heap
                    ELSE /\ proms' = [proms EXCEPT ![p].st = "fulfilled", ![p].val = r.ret,
                                                   ![p].k.at = "return",
                                                   ![p].k.response = <<response>>]
                         /\ heap' = r.heap
    /\ UNCHANGED <<ret, thrown, calls, last, root>>

\* the promise of the body reader settles and fetchr resumes: it returns an Ok
\* of the data, or catches the reader's error and returns an Err of it
BodySettles ==
    /\ last = Idle
    /\ \E p \in 1..Len(proms) :
        /\ proms[p].st = "pending"
        /\ proms[p].k.kind = "fetchr"
        /\ proms[p].k.at = "body"
        /\ \E interrupted \in BOOLEAN :
            LET data == IF interrupted
                        THEN [ok |-> FALSE, val |-> Error("TypeError: network error")]
                        ELSE Read(proms[p].k.readers[1], proms[p].k.response[1].body)
                r == IF data.ok THEN New_Ok(heap, data.val) ELSE New_Err(heap, data.val)
            IN  /\ heap' = r.heap
                /\ proms' = [proms EXCEPT ![p].st = "fulfilled", ![p].val = r.ret,
                                          ![p].k.at = IF data.ok THEN "return" ELSE "catch",
                                          ![p].k.caught = IF data.ok THEN <<>> ELSE <<data.val>>]
    /\ UNCHANGED <<ret, thrown, calls, last, root>>

NextFetch == Call_fetchr \/ FetchSettles \/ BodySettles \/ EndStatement

SpecFetch == Init /\ [][NextFetch]_vars

(***************************************************************************)
(* The split API: the classes of src/src/lib/result.ts and of              *)
(* src/unnamed/part_008 give every value-or-callback method of the unified *)
(* classes as two methods, one taking the value and one (and_then, the     *)
(* _else methods) taking the callback.  m names the method, a holds its    *)
(* arguments.                                                              *)
(***************************************************************************)
Split_Ok(h, self, m, a) ==
    CASE m \in {"map_or", "map_or_else"} -> Invoke(h, a[2], <<h[self].value>>)
      [] m = "and" -> Return(h, a[1])
      [] m = "and_then" -> Invoke(h, a[1], <<h[self].value>>)
      [] m \in {"or", "or_else"} -> New_Ok(h, h[self].value)
      [] m \in {"unwrap_or", "unwrap_or_else"} -> Return(h, h[self].value)
      [] OTHER -> NoMethod(h, m)

Split_Err(h, self, m, a) ==
    CASE m = "map_or" -> Return(h, a[1])
      [] m = "map_or_else" -> Invoke(h, a[1], <<>>)
      [] m \in {"and", "and_then"} -> New_Err(h, h[self].err)
      [] m = "or" -> Return(h, a[1])
      [] m = "or_else" -> Invoke(h, a[1], <<h[self].err>>)
      [] m = "unwrap_or" -> Return(h, a[1])
      [] m = "unwrap_or_else" -> Invoke(h, a[1], <<h[self].err>>)
      [] OTHER -> NoMethod(h, m)

Split_Some(h, self, m, a) ==
    CASE m \in {"map_or", "map_or_else"} -> Invoke(h, a[2], <<h[self].value>>)
      [] m \in {"ok_or", "ok_or_else"} -> New_Ok(h, h[self].value)
      [] m = "and" -> Return(h, a[1])
      [] m = "and_then" -> Invoke(h, a[1], <<h[self].value>>)
      [] m \in {"or", "or_else"} -> New_Some(h, h[self].value)
      [] m \in {"unwrap_or", "unwrap_or_else"} -> Return(h, h[self].value)
      [] OTHER -> NoMethod(h, m)

Split_None(h, self, m, a) ==
    CASE m = "map_or" -> Return(h, a[1])
      [] m = "map_or_else" -> Invoke(h, a[1], <<>>)
      [] m = "ok_or" -> New_Err(h, a[1])
      [] m = "ok_or_else" -> Then(Invoke(h, a[1], <<>>), LAMBDA h2, e : New_Err(h2, e))
      [] m \in {"and", "and_then"} -> New_None(h)
      [] m = "or" -> Return(h, a[1])
      [] m = "or_else" -> Invoke(h, a[1], <<>>)
      [] m = "unwrap_or" -> Return(h, a[1])
      [] m = "unwrap_or_else" -> Invoke(h, a[1], <<>>)
      [] OTHER -> NoMethod(h, m)

(***************************************************************************)
(* class Box of src/unnamed/part_002: one mutable slot, value.  The        *)
(* program makes boxes and calls their methods, one call per statement;    *)
(* the callbacks are those of src/tests/box.spec.ts and the throwing one.  *)
(***************************************************************************)
Box_get(h, self) == Return(h, h[self].value)

Box_set(h, self, value) == Return([h EXCEPT ![self].value = value], Undefined)

\* an in-place map, as map_mut is
Box_map_InPlace(h, self, f) ==
    Then(Invoke(h, f, <<h[self].value>>),
         LAMBDA h2, v : Then(Box_set(h2, self, v), LAMBDA h3, u : Return(h3, Ref(self))))

\* return new Box(f(this.value))
Box_map(h, self, f) ==
    Then(Invoke(h, f, <<h[self].value>>), LAMBDA h2, v : New_Box(h2, v))

Boxes(h) == {i \in 1..Len(h) : h[i].cls = "Box"}

Call_new_Box ==
    /\ Len(heap) < HeapBound(proms)
    /\ \E value \in {Num(n) : n \in 1..MaxBoxValue} \cup {Str("a")} :
            Do("new Box", 0, <<value>>, New_Box(heap, value))

Call_Box_get ==
    \E self \in Boxes(heap) : Do("Box.get", self, <<>>, Box_get(heap, self))

Call_Box_set ==
    \E self \in Boxes(heap), value \in {Num(n) : n \in 1..MaxBoxValue} :
        Do("Box.set", self, <<value>>, Box_set(heap, self, value))

\* return new Box(this.value)
Call_Box_clone ==
    \E self \in Boxes(heap) :
        Do("Box.clone", self, <<>>, New_Box(heap, heap[self].value))

Call_Box_map ==
    \E self \in Boxes(heap), f \in {Fn("inc"), Fn("toString"), Fn("fail")} :
        Do("Box.map", self, <<f>>, Box_map(heap, self, f))

\* this.set(f(this.value)); return this
Call_Box_map_mut ==
    \E self \in Boxes(heap), f \in {Fn("inc"), Fn("toString"), Fn("fail")} :
        Do("Box.map_mut", self, <<f>>,
           Then(Invoke(heap, f, <<heap[self].value>>),
                LAMBDA h2, v : Then(Box_set(h2, self, v),
                                    LAMBDA h3, u : Return(h3, Ref(self)))))

\* return transformer(this.value)
Call_Box_flat_map ==
    \E self \in Boxes(heap), transformer \in {Fn("boxInc"), Fn("fail")} :
        Do("Box.flat_map", self, <<transformer>>,
           Invoke(heap, transformer, <<heap[self].value>>))

\* return validator(this.value)
Call_Box_validate ==
    \E self \in Boxes(heap), validator \in {Fn("isOne"), Fn("fail")} :
        Do("Box.validate", self, <<validator>>,
           Invoke(heap, validator, <<heap[self].value>>))

\* return JSON.stringify(this.value): a number in decimal, a string in
\* double quotes
Call_Box_serialize ==
    \E self \in Boxes(heap) :
        LET value == heap[self].value
        IN  Do("Box.serialize", self, <<>>,
               CASE value.t = "num" -> Return(heap, Str(ToString(value.v)))
                 [] value.t = "str" -> Return(heap, Str("\"" \o value.v \o "\""))
                 [] OTHER -> IllTyped(heap))

NextBox ==
    \/ Call_new_Box \/ Call_Box_get \/ Call_Box_set \/ Call_Box_clone
    \/ Call_Box_map \/ Call_Box_map_mut \/ Call_Box_flat_map
    \/ Call_Box_validate \/ Call_Box_serialize
    \/ EndStatement

SpecBox == Init /\ [][NextBox]_vars

(***************************************************************************)
(* The claims.                                                             *)
(***************************************************************************)
Receiver == heap[last.recv]
Returned == thrown = <<>>
Callable(i) == InstanceofFunction(last.args[i])

\* C1: short-circuiting never invokes the operand: None.and(f), Err(e).and(f),
\* Some(v).or(f) and Ok(v).or(f) return, for every callable f, without
\* invoking f.
C1_ShortCircuit ==
    /\ (last.op = "and" /\ Receiver.cls \in {"None", "Err"} /\ Callable(1))
            => Returned /\ calls = <<>>
    /\ (last.op = "or" /\ Receiver.cls \in {"Some", "Ok"} /\ Callable(1))
            => Returned /\ calls = <<>>

C1_Witness ==
    /\ last.op = "and"
    /\ Receiver.cls = "Err"
    /\ Callable(1)
    /\ Returned

\* C2: an error is absorbing under map/and: after any chain of map and and
\* calls applied to an Err(e) (the root of the chain, or the receiver of its
\* last call), the value is an Err holding exactly e and no callback was
\* invoked, so e was passed to no caller-supplied function.
C2_ErrAbsorbing ==
    \A r \in {root, last.recv} :
        (last.op \in Chained /\ heap[r].cls = "Err") =>
            /\ Returned
            /\ calls = <<>>
            /\ ret.t = "ref"
            /\ heap[ret.v].cls = "Err"
            /\ heap[ret.v].err = heap[r].err

C2_Witness ==
    /\ last.op \in Chained
    /\ root # last.recv
    /\ heap[root].cls = "Err"
    /\ Callable(1)
    /\ ret.t = "ref"

\* C3: Err(e).unwrap() raises a failure whose content includes the error
\* payload e (a string).
C3_UnwrapCarriesPayload ==
    (last.op = "unwrap" /\ Receiver.cls = "Err" /\ Receiver.err.t = "str") =>
        /\ thrown # <<>>
        /\ Includes(thrown[1].v, Receiver.err.v)

\* the texts tests/result.spec.ts expects of the two failures
UnwrapErrOnOkText == "Called 'unwrap_err()' on an 'Ok' value"
UnwrapOnErrText == "called 'unwrap()' on an 'Err' value"

NoCallbackFailed ==
    \A i \in 1..Len(calls) : CallbackBody(calls[i].fn, heap, calls[i].args).thrown = <<>>

\* C5: the library raises only from unwrap/expect on None or Err and from
\* unwrap_err on Ok; with callbacks that do not themselves fail, every other
\* call returns a value.
C5_OnlyMisuseRaises ==
    (thrown # <<>> /\ NoCallbackFailed) =>
        \/ last.op \in {"unwrap", "expect"} /\ Receiver.cls \in {"None", "Err"}
        \/ last.op = "unwrap_err" /\ Receiver.cls = "Ok"

C5_Witness ==
    /\ last.op = "free match"
    /\ Receiver.cls = "Err"
    /\ Returned
    /\ calls # <<>>

\* C6: every Option ever constructed answers TRUE to exactly one of
\* is_some()/is_none(), and every Result to exactly one of is_ok()/is_err().
C6_ExactlyOneVariant ==
    /\ \A i \in Options(heap) :
           (Send_is_some(heap, i).ret = Bool(TRUE)) # (Send_is_none(heap, i).ret = Bool(TRUE))
    /\ \A i \in Results(heap) :
           (Send_is_ok(heap, i).ret = Bool(TRUE)) # (Send_is_err(heap, i).ret = Bool(TRUE))

C6_Witness ==
    /\ last.op = "ok_or"
    /\ Receiver.cls = "None"
    /\ ret.t = "ref"
    /\ Options(heap) # {}
    /\ Results(heap) # {}

\* what an instance shows of itself: its variant and what unwrap, unwrap_err
\* and a match that hands the payload to String return or raise
Shown(r) == <<r.ret, r.thrown>>

Yields(h, i) ==
    [variant |-> h[i].cls,
     unwrap |-> Shown(Send_unwrap(h, i)),
     unwrap_err |-> IF i \in Results(h) THEN Shown(Send_unwrap_err(h, i)) ELSE <<>>,
     match |->
        CASE h[i].cls = "Ok" -> Shown(Ok_match(h, i, [ok |-> Fn("String"), err |-> Fn("String")]))
          [] h[i].cls = "Err" -> Shown(Err_match(h, i, [ok |-> Fn("String"), err |-> Fn("String")]))
          [] h[i].cls = "Some" ->
                Shown(Some_match(h, i, [some |-> Fn("String"), none |-> Fn("unexpected")]))
          [] h[i].cls = "None" ->
                Shown(None_match(h, i, [some |-> Fn("String"), none |-> Fn("unexpected")]))]

C7_Step ==
    \A i \in 1..Len(heap) :
        /\ i <= Len(heap')
        /\ heap'[i] = heap[i]
        /\ Yields(heap', i) = Yields(heap, i)

\* C7: no step of the program, whether a sync call, an async call, the
\* completion of an async callback or the resumption of a suspended async
\* method, in any interleaving, changes an instance that exists: each keeps
\* the variant and the payload it was constructed with, and so what unwrap,
\* unwrap_err and match yield.
C7_NoMethodMutatesReceiver == [][C7_Step]_vars

\* Ok(42).map_async(toString) has been started, its callback has completed
\* and the method has resumed and built Ok("42"); unwrap on the receiver
\* then still returns 42
C7_Witness ==
    /\ Len(heap) = 2
    /\ heap[1] = [cls |-> "Ok", value |-> Num(42)]
    /\ heap[2] = [cls |-> "Ok", value |-> Str("42")]
    /\ Len(proms) = 2
    /\ proms[1].st = "fulfilled" /\ proms[1].val = Str("42")
    /\ proms[2].st = "fulfilled" /\ proms[2].val = Ref(2)
    /\ last = [op |-> "unwrap", recv |-> 1, args |-> <<>>]
    /\ ret = Num(42)

\* what f(...args) does from heap h: the record of the call, then its outcome
Applied(h, f, args) ==
    LET e == CallbackBody(f.v, h, args)
    IN  /\ calls' = <<[fn |-> f.v, args |-> args]>>
        /\ ret' = e.ret
        /\ heap' = e.heap
        /\ thrown' = e.thrown

\* the call returns the value x as it is, calling nothing and building nothing
Passed(x) ==
    /\ ret' = x
    /\ heap' = heap
    /\ calls' = <<>>
    /\ thrown' = <<>>

\* the call returns a new object, equal to obj, calling nothing
Built(obj) ==
    /\ ret' = Ref(Len(heap) + 1)
    /\ heap' = Append(heap, obj)
    /\ calls' = <<>>
    /\ thrown' = <<>>

OkOf(v) == [cls |-> "Ok", value |-> v]
ErrOf(e) == [cls |-> "Err", err |-> e]
SomeOf(v) == [cls |-> "Some", value |-> v]

C8_Step ==
    LET c == last'
        x == c.args[1]
    IN  /\ (c.op = "and" /\ heap[c.recv].cls = "Ok") =>
                IF InstanceofFunction(x)
                THEN Applied(heap, x, <<heap[c.recv].value>>)
                ELSE Passed(x)
        /\ (c.op = "and" /\ heap[c.recv].cls = "Err") => Built(ErrOf(heap[c.recv].err))
        /\ (c.op = "divide" /\ c.args = <<Num(10), Num(5)>>) => Built(OkOf(Num(2)))
        /\ (c.op = "and" /\ heap[c.recv] = OkOf(Num(2)) /\ x = Fn("half"))
                => heap'[ret'.v] = OkOf(Num(1))
        /\ (c.op = "map" /\ heap[c.recv] = OkOf(Num(1)) /\ x = Fn("pair"))
                => heap'[ret'.v] = OkOf(Arr(<<1, 2>>))
        /\ (c.op = "match" /\ heap[c.recv] = OkOf(Arr(<<1, 2>>)) /\ x.ok = Fn("sum"))
                => ret' = Num(3)

\* C8: Result.and is bind with a value overload: Ok(v).and(f) returns exactly
\* f(v), f invoked once on v; Ok(v).and(r) returns the Result r itself;
\* Err(e).and(_) is Err(e).  So divide(10, 5) is Ok(2), .and(z => divide(z, 2))
\* gives Ok(1), .map(z => [z, z + 1]) gives Ok([1, 2]) and matching that with
\* ok: ([a, b]) => a + b gives 3.
C8_AndIsBind == [][C8_Step]_vars

C8_Witness ==
    /\ last.op = "match"
    /\ root = 1
    /\ last.recv = 3
    /\ heap = <<OkOf(Num(2)), OkOf(Num(1)), OkOf(Arr(<<1, 2>>))>>
    /\ last.args[1].ok = Fn("sum")
    /\ ret = Num(3)

C9_Step ==
    LET c == last'
        x == c.args[1]
        self == heap[c.recv]
    IN  /\ (c.op = "or" /\ self.cls = "Ok") => Built(OkOf(self.value))
        /\ (c.op = "or" /\ self.cls = "Some") => Built(SomeOf(self.value))
        /\ (c.op = "or" /\ self.cls = "Err") =>
                IF InstanceofFunction(x) THEN Applied(heap, x, <<self.err>>) ELSE Passed(x)
        /\ (c.op = "or" /\ self.cls = "None") =>
                IF InstanceofFunction(x) THEN Applied(heap, x, <<>>) ELSE Passed(x)

C10_Step ==
    LET c == last'
        op == c.args[1]
        self == heap[c.recv]
    IN  /\ (c.op = "map_err" /\ self.cls = "Err") => Applied(heap, op, <<self.err>>)
        /\ (c.op = "map_err" /\ self.cls = "Ok") => Built(OkOf(self.value))

Raised(e) ==
    /\ thrown' = <<e>>
    /\ heap' = heap
    /\ calls' = <<>>

C11_Step ==
    LET c == last'
        x == c.args[1]
        self == heap[c.recv]
    IN  /\ (c.op = "ok_or" /\ self.cls = "Some") =>
                /\ Built(OkOf(self.value))
                /\ Send_unwrap(heap', ret'.v).ret = self.value
        /\ (c.op = "ok_or" /\ self.cls = "None") =>
                LET e == IF InstanceofFunction(x) THEN CallbackBody(x.v, heap, <<>>).ret ELSE x
                IN  /\ calls' = IF InstanceofFunction(x) THEN <<[fn |-> x.v, args |-> <<>>]>>
                                ELSE <<>>
                    /\ thrown' = <<>>
                    /\ heap' = Append(heap, ErrOf(e))
                    /\ ret' = Ref(Len(heap'))
                    /\ Send_unwrap_err(heap', ret'.v).ret = e

\* C11: ok_or turns absence into a typed error: Some(v).ok_or(e) is Ok(v),
\* whose unwrap() is v, and a thunk e is not invoked; None().ok_or(e) is Err(e),
\* whose unwrap_err() is e, a thunk e being invoked exactly once, with no
\* argument, and its result taken as the error.
C11_OkOrConverts == [][C11_Step]_vars

C11_Witness ==
    /\ last.op = "ok_or"
    /\ Receiver.cls = "None"
    /\ last.args[1] = Fn("k42")
    /\ calls = <<[fn |-> "k42", args |-> <<>>]>>
    /\ heap[ret.v] = ErrOf(Num(42))

C12_Step ==
    LET c == last'
        self == heap[c.recv]
    IN  (c.op = "unwrap_or" /\ self.cls \in {"Some", "Ok"}) => Passed(self.value)

\* C12: unwrap_or is the identity on success: Some(v).unwrap_or(x) and
\* Ok(v).unwrap_or(x) return v for a plain value x and for a thunk x alike, and
\* a thunk x is not invoked.
C12_UnwrapOrIdentityOnSuccess == [][C12_Step]_vars

C12_Witness ==
    /\ last.op = "unwrap_or"
    /\ Receiver.cls = "Some"
    /\ Callable(1)
    /\ ret = Receiver.value
    /\ calls = <<>>

C13_Step ==
    LET c == last'
        x == c.args[1]
        self == heap[c.recv]
    IN  /\ (c.op = "unwrap_or" /\ self.cls = "Err") =>
                IF InstanceofFunction(x) THEN Applied(heap, x, <<self.err>>) ELSE Passed(x)
        /\ (c.op = "unwrap_or" /\ self.cls = "None") =>
                IF InstanceofFunction(x) THEN Applied(heap, x, <<>>) ELSE Passed(x)

\* C13: unwrap_or on the failing variant returns the fallback:
\* Err(e).unwrap_or(x) is x for a plain x and x(e), the callback receiving the
\* error payload, for a callable x; None.unwrap_or(x) is x, or x() for a
\* callable x.
C13_UnwrapOrFallback == [][C13_Step]_vars

C13_Witness ==
    /\ last.op = "unwrap_or"
    /\ Receiver.cls = "Err"
    /\ calls = <<[fn |-> "k42", args |-> <<Receiver.err>>]>>
    /\ ret = Num(42)

C14_Step ==
    LET c == last'
        x == c.args[1]
        op == c.args[2]
        self == heap[c.recv]
    IN  /\ (c.op = "map_or" /\ self.cls \in {"Some", "Ok"}) =>
                Applied(heap, op, <<self.value>>)
        /\ (c.op = "map_or" /\ self.cls \in {"None", "Err"}) =>
                IF InstanceofFunction(x) THEN Applied(heap, x, <<>>) ELSE Passed(x)

\* C14: map_or is lazy in its default: on Some(v)/Ok(v) it returns op(v), op
\* being the only callback invoked (a thunk default is not); on None/Err it
\* returns the default, a thunk default being invoked exactly once, and op is
\* not invoked.
C14_MapOrLazy == [][C14_Step]_vars

C14_Witness ==
    /\ last.op = "map_or"
    /\ Receiver.cls = "Ok"
    /\ Callable(1)
    /\ calls = <<[fn |-> "toString", args |-> <<Num(42)>>]>>
    /\ ret = Str("42")

C15_Step ==
    LET c == last'
        self == heap[c.recv]
    IN  /\ (c.op = "expect" /\ self.cls \in {"Some", "Ok"}) => Passed(self.value)
        /\ (c.op = "expect" /\ self.cls \in {"None", "Err"}) =>
                Raised(Error(c.args[1].v))

\* C15: expect(msg) returns the contained value on Some/Ok for every msg, and
\* on None/Err raises a failure whose message is exactly msg: not the error
\* payload and not the text unwrap fails with.
C15_ExpectCarriesMessage == [][C15_Step]_vars

C15_Witness ==
    /\ last.op = "expect"
    /\ Receiver.cls = "Err"
    /\ thrown = <<Error("Testing expect")>>
    /\ thrown # <<Error(UnwrapOnErrText)>>
    /\ Receiver.err # Str("Testing expect")

C16_Step ==
    LET c == last'
        pattern == c.args[1]
        self == heap[c.recv]
    IN  /\ (c.op = "match" /\ self.cls = "Ok") => Applied(heap, pattern.ok, <<self.value>>)
        /\ (c.op = "match" /\ self.cls = "Err") => Applied(heap, pattern.err, <<self.err>>)
        /\ (c.op = "match" /\ self.cls = "Some") => Applied(heap, pattern.some, <<self.value>>)
        /\ (c.op = "match" /\ self.cls = "None") => Applied(heap, pattern.none, <<>>)

\* C16: the match method is an exhaustive two-way dispatch: x.match(pattern)
\* invokes exactly one branch exactly once, the branch of x's variant, with x's
\* payload (no argument for none), returns that branch's result, and does not
\* invoke the other branch.
C16_MatchDispatch == [][C16_Step]_vars

C16_Witness ==
    /\ last.op = "match"
    /\ Receiver.cls = "Err"
    /\ calls = <<[fn |-> "unexpected", args |-> <<Receiver.err>>]>>
    /\ ret = Str("Enexpected error")

\* what the method x.match(pattern) does from heap h
MethodMatch(h, x, pattern) ==
    CASE h[x].cls = "Ok" -> Ok_match(h, x, pattern)
      [] h[x].cls = "Err" -> Err_match(h, x, pattern)
      [] h[x].cls = "Some" -> Some_match(h, x, pattern)
      [] h[x].cls = "None" -> None_match(h, x, pattern)

\* the call does exactly what r describes: same invocations, result and heap
Does(r) ==
    /\ calls' = r.calls
    /\ ret' = r.ret
    /\ thrown' = r.thrown
    /\ heap' = r.heap

C17_Step ==
    LET c == last'
    IN  /\ c.op = "free match" =>
                /\ Does(MethodMatch(heap, c.recv, c.args[1]))
                /\ Len(calls') = 1
        /\ c.op = "match" => Does(match(heap, Ref(c.recv), c.args[1]))

\* C17: the free function match is equivalent to the method: match(x, p)
\* invokes the same single branch with the same argument and returns the same
\* value as x.match(p), and conversely: an input exposing is_ok is dispatched
\* as a Result, to the branch its method would take, any other as an Option.
C17_FreeMatchIsMethod == [][C17_Step]_vars

C17_Witness ==
    /\ last.op = "free match"
    /\ Receiver.cls = "None"
    /\ calls = <<[fn |-> "unexpected", args |-> <<>>]>>
    /\ ret = Str("Enexpected error")
    /\ \E i \in Results(heap) : heap[i].cls = "Err"

\* C18: the type guards partition the two container types: for every value x
\* built by Some/None/Ok/Err or a combinator, whatever its payload,
\* is_result(x) is true iff x is Ok or Err and is_option(x) is true iff x is
\* Some or None, so exactly one of the two holds; and a call of a guard
\* returns that answer.
C18_GuardsPartition ==
    /\ \A i \in 1..Len(heap) :
        /\ is_result(heap, Ref(i)) <=> heap[i].cls \in {"Ok", "Err"}
        /\ is_option(heap, Ref(i)) <=> heap[i].cls \in {"Some", "None"}
        /\ is_result(heap, Ref(i)) # is_option(heap, Ref(i))
    /\ last.op = "is_result" => ret = Bool(Receiver.cls \in {"Ok", "Err"})
    /\ last.op = "is_option" => ret = Bool(Receiver.cls \in {"Some", "None"})

C18_Witness ==
    /\ last.op = "is_option"
    /\ Receiver.cls = "Ok"
    /\ Receiver.value.t = "arr"
    /\ ret = Bool(FALSE)
    /\ \E i \in Options(heap) : heap[i].cls = "None"

\* x => g(f(x)) and v => f(v).and(g), for the pairs of callbacks that have one
Compose(g, f) == Fn(g.v \o " . " \o f.v)
BindCompose(f, g) == Fn(f.v \o " . and(" \o g.v \o ")")
Composites == {Fn("sum . pair"), Fn("String . toString")}
BindComposites ==
    {Fn("some . and(someString)"), Fn("someString . and(some2)"),
     Fn("toNone . and(someString)")}

\* the object a call returned
Object(r) == r.heap[r.ret.v]

C19_Step ==
    LET c == last'
        g == c.args[1]
        f == last.args[1]
    IN  /\ (c.op = "map" /\ heap[c.recv].cls = "Some" /\ g = Fn("id")) =>
                /\ thrown' = <<>>
                /\ heap'[ret'.v] = heap[c.recv]
        /\ (c.op = "map" /\ heap[c.recv].cls = "None") => Built([cls |-> "None"])
        /\ (c.op = "map" /\ last.op = "map" /\ last.recv \in Options(heap)
                /\ Compose(g, f) \in Composites) =>
                /\ thrown' = <<>>
                /\ heap'[ret'.v] =
                       Object(IF heap[last.recv].cls = "Some"
                              THEN Some_map(heap, last.recv, Compose(g, f))
                              ELSE None_map(heap, last.recv, Compose(g, f)))

\* C19: map obeys the functor laws on both variants of Option: Some(v).map(x
\* => x) equals Some(v); opt.map(f).map(g) equals opt.map(x => g(f(x))) for opt
\* a Some or a None; and mapping None yields None without invoking the
\* function.  Equality is of variant and payload.
C19_MapFunctorLaws == [][C19_Step]_vars

C19_Witness ==
    /\ last.op = "map"
    /\ root # last.recv
    /\ heap[root] = SomeOf(Num(42))
    /\ Receiver = SomeOf(Arr(<<42, 43>>))
    /\ last.args[1] = Fn("sum")
    /\ heap[ret.v] = SomeOf(Num(85))

C20_Step ==
    LET c == last'
        x == c.args[1]
        self == heap[c.recv]
        f == last.args[1]
    IN  /\ (c.op = "and" /\ self.cls = "Some") =>
                IF InstanceofFunction(x) THEN Does(Invoke(heap, x, <<self.value>>))
                ELSE Passed(x)
        /\ (c.op = "and" /\ self.cls = "None") => Built([cls |-> "None"])
        /\ (c.op = "and" /\ c.recv \in Options(heap) /\ x = Fn("some")) =>
                /\ thrown' = <<>>
                /\ heap'[ret'.v] = self
        /\ (c.op = "and" /\ last.op = "and" /\ last.recv \in Options(heap)
                /\ InstanceofFunction(f) /\ InstanceofFunction(x)
                /\ BindCompose(f, x) \in BindComposites) =>
                /\ thrown' = <<>>
                /\ heap'[ret'.v] = Object(OptionAnd(heap, last.recv, BindCompose(f, x)))

C21_Step ==
    LET c == last'
        x == heap[c.recv]
    IN  (c.op = "ok" /\ c.recv \in Results(heap)) =>
            IF x.cls = "Ok"
            THEN Applied(heap, c.args[1], <<x.value>>)
            ELSE IF Len(c.args) = 2
                 THEN Passed(c.args[2])
                 ELSE Passed(Ref(c.recv))

\* C21: x.ok(f, fallback) on Ok(v) returns f(v) and ignores the fallback; on
\* Err(e) it never calls f, returns the fallback whenever one is supplied,
\* whatever its value, and returns the receiver itself when none is.
C21_OkCallsOrFallsBack == [][C21_Step]_vars

(***************************************************************************)
(* C22: Option.some(f).                                                    *)
(***************************************************************************)
C22_Step ==
    LET c == last'
        x == heap[c.recv]
    IN  (c.op = "some" /\ c.recv \in Options(heap)) =>
            IF x.cls = "Some"
            THEN Applied(heap, c.args[1], <<x.value>>)
            ELSE Passed(Ref(c.recv))

\* C22: x.some(f) on Some(v) calls f once, on v, and returns what f returns,
\* not wrapped in an Option; on None it never calls f and returns the
\* receiver itself.
C22_SomeCallsOrPasses == [][C22_Step]_vars

C22_Witness ==
    /\ last.op = "some"
    /\ Receiver.cls = "Some"
    /\ calls = <<[fn |-> "toString", args |-> <<Num(42)>>]>>
    /\ ret = Str("42")

(***************************************************************************)
(* C23: the async mirrors.                                                 *)
(***************************************************************************)
Mirrors ==
    {"map_async", "map_or_async", "map_err_async", "ok_or_async", "and_async",
     "or_async", "unwrap_or_async", "match_async"}

\* the sync counterpart of an async argument: the function with the same body
\* for an async callback, the value it resolved to for a promise
Twin(ps, a) ==
    IF a.t = "asyncfn" THEN Fn(a.v)
    ELSE IF a.t = "promise" THEN ps[a.v].val
    ELSE a

TwinPattern(pattern) == [b \in DOMAIN pattern |-> Fn(pattern[b].v)]

\* what the sync method of which m is the mirror does from heap h on x, given
\* the sync counterparts of the arguments a
Sync(h, ps, m, x, a) ==
    LET cls == h[x].cls IN
    CASE m = "map_async" ->
            (CASE cls = "Ok" -> Ok_map(h, x, Twin(ps, a[1]))
               [] cls = "Err" -> Err_map(h, x, Twin(ps, a[1]))
               [] cls = "Some" -> Some_map(h, x, Twin(ps, a[1]))
               [] cls = "None" -> None_map(h, x, Twin(ps, a[1])))
      [] m = "map_or_async" ->
            (CASE cls = "Ok" -> Ok_map_or(h, x, Twin(ps, a[1]), Twin(ps, a[2]))
               [] cls = "Err" -> Err_map_or(h, x, Twin(ps, a[1]), Twin(ps, a[2]))
               [] cls = "Some" -> Some_map_or(h, x, Twin(ps, a[1]), Twin(ps, a[2]))
               [] cls = "None" -> None_map_or(h, x, Twin(ps, a[1]), Twin(ps, a[2])))
      [] m = "map_err_async" ->
            (CASE cls = "Ok" -> Ok_map_err(h, x, Twin(ps, a[1]))
               [] cls = "Err" -> Err_map_err(h, x, Twin(ps, a[1])))
      [] m = "ok_or_async" ->
            (CASE cls = "Some" -> Some_ok_or(h, x, Twin(ps, a[1]))
               [] cls = "None" -> None_ok_or(h, x, Twin(ps, a[1])))
      [] m = "and_async" ->
            (CASE cls = "Ok" -> Ok_and(h, x, Twin(ps, a[1]))
               [] cls = "Err" -> Err_and(h, x, Twin(ps, a[1]))
               [] cls = "Some" -> Some_and(h, x, Twin(ps, a[1]))
               [] cls = "None" -> None_and(h, x, Twin(ps, a[1])))
      [] m = "or_async" ->
            (CASE cls = "Ok" -> Ok_or(h, x, Twin(ps, a[1]))
               [] cls = "Err" -> Err_or(h, x, Twin(ps, a[1]))
               [] cls = "Some" -> Some_or(h, x, Twin(ps, a[1]))
               [] cls = "None" -> None_or(h, x, Twin(ps, a[1])))
      [] m = "unwrap_or_async" ->
            (CASE cls = "Ok" -> Ok_unwrap_or(h, x, Twin(ps, a[1]))
               [] cls = "Err" -> Err_unwrap_or(h, x, Twin(ps, a[1]))
               [] cls = "Some" -> Some_unwrap_or(h, x, Twin(ps, a[1]))
               [] cls = "None" -> None_unwrap_or(h, x, Twin(ps, a[1])))
      [] m = "match_async" -> MethodMatch(h, x, TwinPattern(a[1]))

\* a value as a caller sees it: an object by its class and payload
Seen(h, v) == IF v.t = "ref" THEN h[v.v] ELSE v

\* promise p is fulfilled by this step
Fulfils(p) ==
    /\ p \in 1..Len(proms')
    /\ proms'[p].st = "fulfilled"
    /\ p \in 1..Len(proms) => proms[p].st = "pending"

C23_Step ==
    \A p \in 1..Len(proms') :
        (Fulfils(p) /\ proms'[p].by.op \in Mirrors) =>
            LET c == proms'[p].by
                r == Sync(heap', proms', c.op, c.recv, c.args)
            IN  /\ proms'[p].val.t # "promise"
                /\ r.thrown = <<>>
                /\ Seen(heap', proms'[p].val) = Seen(r.heap, r.ret)

\* C23: for every variant of the receiver and every X among map, map_or,
\* map_err, ok_or, and, or, unwrap_or and match, when the promise returned by
\* X_async is fulfilled, it holds what sync X returns on the same receiver
\* when its callback or default yields what the async one resolved to; it
\* never holds a promise.
C23_AsyncMirrorsSync == [][C23_Step]_vars

\* Some(42).map_async(async x => x.toString()) has resolved to Some("42")
C23_Witness ==
    \E p \in 1..Len(proms) :
        /\ proms[p].by.op = "map_async"
        /\ heap[proms[p].by.recv] = SomeOf(Num(42))
        /\ proms[p].by.args = <<AsyncFn("toString")>>
        /\ proms[p].st = "fulfilled"
        /\ Seen(heap, proms[p].val) = SomeOf(Str("42"))

(***************************************************************************)
(* C27: an async combinator completes only after its callback.             *)
(***************************************************************************)
Combinators == {"map_async", "and_async", "or_async", "map_err_async", "match_async"}

\* promise p settles in this step
Settles(p) ==
    /\ p \in 1..Len(proms')
    /\ proms'[p].st # "pending"
    /\ p \in 1..Len(proms) => proms[p].st = "pending"

\* the promise of the callback the call of this step invoked
CallbackPromise(p) ==
    /\ p \in (Len(proms) + 1)..Len(proms')
    /\ proms'[p].k.kind = "callback"

C27_Step ==
    LET c == last' IN
    \* a call that invokes its callback returns a promise that waits on the
    \* callback's promise
    /\ (c.op \in Combinators /\ calls' # <<>>) =>
            LET p == ret'.v
            IN  /\ ret'.t = "promise"
                /\ proms'[p].st = "pending"
                /\ proms'[p].k.kind \in {"follow", "await"}
                /\ CallbackPromise(proms'[p].k.on)
    \* a promise that waits on another settles after it
    /\ \A p \in 1..Len(proms) :
            (Settles(p) /\ proms[p].by.op \in Combinators) =>
                proms[proms[p].k.on].st # "pending"
    \* a step applied to the awaited result of an earlier step starts its
    \* callback after the callback of the earlier step has settled
    /\ (c.op \in Combinators /\ calls' # <<>>) =>
            \A p \in 1..Len(proms) :
                (/\ proms[p].by.op \in Combinators
                 /\ proms[p].st = "fulfilled"
                 /\ proms[p].val = Ref(c.recv)
                 /\ proms[p].k.kind \in {"follow", "await"}) =>
                    /\ proms[proms[p].k.on].st # "pending"
                    /\ \A q \in 1..Len(proms') : CallbackPromise(q) => proms[p].k.on < q

\* C27: the promise returned by map_async, and_async, or_async, map_err_async
\* or match_async settles no earlier than the promise of the callback it
\* invoked; so in a chain where each step is applied to the awaited result
\* of the one before, the callback of a step starts only after the callback
\* of the step before has settled, in the order written.
C27_SettlesAfterCallback == [][C27_Step]_vars

\* (await Ok(42).map_async(toString)).match_async(pattern): the second step
\* has started its callback, on "42"
C27_Witness ==
    /\ last.op = "match_async"
    /\ calls = <<[fn |-> "String", args |-> <<Str("42")>>]>>
    /\ \E p \in 1..Len(proms) :
        /\ proms[p].by.op = "map_async"
        /\ proms[p].st = "fulfilled"
        /\ proms[p].val = Ref(last.recv)
        /\ proms[proms[p].k.on].k.kind = "callback"
        /\ proms[proms[p].k.on].st = "fulfilled"

(***************************************************************************)
(* C28: an async combinator never waits for an operand it does not use.    *)
(***************************************************************************)
\* promise p was returned by a call, on Ok or Some, that has no use for its
\* default or alternative
DefaultUnused(p) ==
    /\ p \in 1..Len(proms)
    /\ proms[p].by.op \in {"map_or_async", "or_async", "unwrap_or_async", "ok_or_async"}
    /\ heap[proms[p].by.recv].cls \in {"Ok", "Some"}

HasSettled(p) == p \in 1..Len(proms) /\ proms[p].st # "pending"

C28_Step ==
    LET c == last' IN
    (c.op \in {"and_async", "map_async"} /\ heap[c.recv].cls \in {"Err", "None"}) =>
        /\ calls' = <<>>
        /\ ret'.t = "promise"
        /\ proms'[ret'.v].st = "fulfilled"

\* C28: on Ok and Some the promise of map_or_async, or_async, unwrap_or_async
\* and ok_or_async eventually settles, once the callback that was invoked has
\* settled, even when the default or alternative promise never settles; on
\* Err and None, and_async and map_async invoke nothing and return a promise
\* that is already resolved.
C28_NeverWaitsForUnused ==
    /\ [][C28_Step]_vars
    /\ \A p \in 1..MaxChainProms : DefaultUnused(p) ~> HasSettled(p)

\* Ok(42).map_or_async(new Promise(() => 42), async x => x.toString()) has
\* resolved to "42" while the default is still pending
C28_Witness ==
    \E p \in 1..Len(proms) :
        /\ proms[p].by.op = "map_or_async"
        /\ heap[proms[p].by.recv] = OkOf(Num(42))
        /\ proms[p].by.args[1].t = "promise"
        /\ proms[proms[p].by.args[1].v] = NeverSettles
        /\ proms[p].st = "fulfilled"
        /\ proms[p].val = Str("42")

(***************************************************************************)
(* C29: callback failures propagate unchanged.                             *)
(***************************************************************************)
AsyncOps == Mirrors \cup {"ok_async", "some_async"}

C29_Step ==
    LET c == last' IN
    \* a sync call fails as the callback it invoked failed
    /\ (c.op \notin AsyncOps \cup {"idle"}) =>
            \A i \in 1..Len(calls') :
                LET e == CallbackBody(calls'[i].fn, heap, calls'[i].args)
                IN  e.thrown # <<>> =>
                        /\ thrown' = e.thrown
                        /\ heap' = heap
    \* a callback's promise is rejected with the callback's failure
    /\ \A q \in 1..Len(proms) :
            (Settles(q) /\ proms[q].k.kind = "callback") =>
                LET e == CallbackBody(proms[q].k.fn, heap, proms[q].k.args)
                IN  e.thrown # <<>> =>
                        /\ proms'[q].st = "rejected"
                        /\ proms'[q].val = e.thrown[1]
                        /\ heap' = heap
    \* the promise of an async call is rejected as the promise it waits on
    /\ \A p \in 1..Len(proms) :
            (/\ Settles(p)
             /\ proms[p].by.op \in AsyncOps
             /\ proms[proms[p].k.on].st = "rejected") =>
                /\ proms'[p].st = "rejected"
                /\ proms'[p].val = proms[proms[p].k.on].val
                /\ heap' = heap

\* C29: when a callback fails inside a sync combinator, the call fails with
\* that same failure; when the promise of an async callback is rejected, the
\* promise the async combinator returned is rejected with the same reason.
\* No Err, None or default is made of the failure, and no object, the
\* receiver included, changes.
C29_FailuresPropagate == [][C29_Step]_vars

\* Some(42).map_async(fail) has been rejected with the callback's failure, and
\* Some(42).map(fail) has just failed with it
C29_Witness ==
    /\ last.op = "map"
    /\ Receiver = SomeOf(Num(42))
    /\ calls = <<[fn |-> "fail", args |-> <<Num(42)>>]>>
    /\ thrown = <<Error("callback failed")>>
    /\ \E p \in 1..Len(proms) :
        /\ proms[p].by = [op |-> "map_async", recv |-> last.recv, args |-> <<AsyncFn("fail")>>]
        /\ proms[p].st = "rejected"
        /\ proms[p].val = Error("callback failed")

(***************************************************************************)
(* C24: fetchr reports every failure as a value.                           *)
(***************************************************************************)
C24_Resolved(p) ==
    LET k == proms[p].k
        result == heap[proms[p].val.v]
    IN  IF k.response = <<>>
        THEN \* the fetch was rejected
             /\ k.caught # <<>>
             /\ result = ErrOf(k.caught[1])
             /\ k.readers = <<>>
        ELSE LET response == k.response[1] IN
             IF response.status \notin 200..299
             THEN /\ result = ErrOf(Error(ToString(response.status) \o " "
                                              \o response.statusText))
                  /\ k.readers = <<>>
             ELSE IF response.content_type = Null \/ response.content_type.v = ""
             THEN /\ result.cls = "Err"
                  /\ k.readers = <<>>
             ELSE /\ Len(k.readers) = 1
                  /\ IF k.caught # <<>>
                     THEN result = ErrOf(k.caught[1])
                     ELSE LET data == Read(k.readers[1], response.body)
                          IN  data.ok /\ result = OkOf(data.val)

\* C24: the promise of fetchr is never rejected; it resolves to Err of the
\* error thrown when the fetch is rejected or the body fails to parse, to
\* Err(Error("<status> <statusText>")) with no body reader invoked when the
\* status is not a success, to an Err when a successful response has no
\* content type, and otherwise to Ok of the parsed body with exactly one
\* body reader invoked.
C24_FailuresAreValues ==
    \A p \in 1..Len(proms) :
        proms[p].by.op = "fetchr" =>
            /\ proms[p].st # "rejected"
            /\ proms[p].st = "fulfilled" => C24_Resolved(p)

(***************************************************************************)
(* C25, C26: Box.map.                                                      *)
(***************************************************************************)
Readers == {"Box.get", "Box.map", "Box.flat_map", "Box.clone", "Box.validate",
            "Box.serialize"}

\* x.get() from heap h
Get(h, x) == Box_get(h, x).ret

\* what f returns when called on the value box x holds in the current state
OfValue(f, x) == CallbackBody(f.v, heap, <<heap[x].value>>).ret

C25_Step ==
    LET c == last'
    IN  /\ c.op \in Readers =>
                \A x \in Boxes(heap) : x \in Boxes(heap') /\ Get(heap', x) = Get(heap, x)
        /\ (c.op = "Box.map" /\ thrown' = <<>>) =>
                /\ ret' = Ref(Len(heap) + 1)
                /\ ret'.v \in Boxes(heap')
                /\ Get(heap', ret'.v) = OfValue(c.args[1], c.recv)
        /\ c.op = "new Box" => Get(heap', ret'.v) = c.args[1]
        /\ c.op = "Box.set" => Get(heap', c.recv) = c.args[1]
        /\ (c.op = "Box.map_mut" /\ thrown' = <<>>) =>
                Get(heap', c.recv) = OfValue(c.args[1], c.recv)
        /\ c.op \in {"new Box", "Box.set", "Box.map_mut"} =>
                \A x \in Boxes(heap) \ {c.recv} : Get(heap', x) = Get(heap, x)

C26_Step ==
    LET c == last'
    IN  (c.op = "Box.map" /\ thrown' = <<>>) =>
            Get(heap', c.recv) = OfValue(c.args[1], c.recv)

\* C26: calling map on a Box maps the contained value of that Box: after
\* x = new Box(v) and x.map(f), x.get() returns f(v).
C26_MapMapsContainedValue == [][C26_Step]_vars

(***************************************************************************)
(* C30: the unified overloads against the split methods.                   *)
(***************************************************************************)
Unified == {"unwrap_or", "map_or", "and", "or", "ok_or"}

\* the split method that takes the callback
Else(m) == IF m = "and" THEN "and_then" ELSE m \o "_else"

\* x.m(...a) in the split API
Split(h, x, m, a) ==
    CASE h[x].cls = "Ok" -> Split_Ok(h, x, m, a)
      [] h[x].cls = "Err" -> Split_Err(h, x, m, a)
      [] h[x].cls = "Some" -> Split_Some(h, x, m, a)
      [] h[x].cls = "None" -> Split_None(h, x, m, a)

\* an and or an or whose operand is a Result or an Option, a default or an
\* error value of any type
AsValue(c) == c.op \in {"unwrap_or", "map_or", "ok_or"} \/ ~InstanceofFunction(c.args[1])

\* the unified call c does what the split method taking the callback does
AsCallback(c) ==
    InstanceofFunction(c.args[1]) => Does(Split(heap, c.recv, Else(c.op), c.args))

C30_Step ==
    LET c == last'
    IN  (c.op \in Unified /\ c.recv \in Results(heap) \cup Options(heap)) =>
            /\ AsValue(c) => Does(Split(heap, c.recv, c.op, c.args))
            /\ AsCallback(c)

C30_ValueStep ==
    LET c == last'
    IN  (c.op \in Unified /\ c.recv \in Results(heap) \cup Options(heap)) =>
            /\ ~InstanceofFunction(c.args[1]) => Does(Split(heap, c.recv, c.op, c.args))
            /\ AsCallback(c)

\* C30: the unified value-or-callback overloads behave exactly like the
\* split named methods: unified r.unwrap_or(d) does what split
\* r.unwrap_or(d) does and unified r.unwrap_or(f) what split
\* r.unwrap_or_else(f) does, likewise map_or, and, or and ok_or, for every
\* default d, a d that is a function value included.
C30_UnifiedIsSplit == [][C30_Step]_vars

\* C30, amended: the unified overloads behave exactly like the split named
\* methods for every default d that is not a function value and every
\* callback f: unified r.unwrap_or(d) does what split r.unwrap_or(d) does
\* and unified r.unwrap_or(f) what split r.unwrap_or_else(f) does, likewise
\* map_or, and, or and ok_or; a function value is always taken as the
\* callback.
C30_UnifiedIsSplitOnValues == [][C30_ValueStep]_vars

C30_Witness ==
    /\ last = [op |-> "unwrap_or", recv |-> 1, args |-> <<Fn("k42")>>]
    /\ Receiver.cls = "Err"
    /\ calls = <<[fn |-> "k42", args |-> <<Receiver.err>>]>>
    /\ ret = Num(42)

====
